---- MODULE Spec2Model ----
(***************************************************************************)
(* A model of the S390 TurboFan code generator                             *)
(* (src/compiler/s390/code-generator-s390.cc).                             *)
(*                                                                         *)
(* The generator lowers one architecture-neutral instruction at a time     *)
(* into a sequence of native instructions.  The model keeps the two        *)
(* halves apart: the lowering rules (one operator per case of              *)
(* AssembleArchInstruction, returning the emitted sequence) and a small    *)
(* interpreter of the emitted instructions over a register file, so that   *)
(* a statement about "the value left in the output register" is a          *)
(* statement about what the emitted sequence computes.                     *)
(*                                                                         *)
(* The model is of the 64-bit build (V8_TARGET_ARCH_S390X).  Registers     *)
(* are 2*HalfBits wide and a "32-bit" quantity is HalfBits wide.           *)
(***************************************************************************)
EXTENDS Integers, Sequences, FiniteSets, TLC

VARIABLES
  instr,   \* the Instruction being lowered (opcode, operands, flags)
  gen,     \* code generator state that outlives one instruction
  code,    \* the native instructions emitted for instr
  m,       \* machine state: registers, memory, condition code, pc
  m0,      \* machine state at the start of the emitted sequence
  trace,   \* the native instructions executed so far
  phase    \* "lower" -> "run" -> "done"

vars == <<instr, gen, code, m, m0, trace, phase>>

\* Generator state of a lowering that keeps none.
NoGen == [none |-> TRUE]

\* Width of a 32-bit quantity in the model; a register is twice as wide.
HalfBits == 4

RECURSIVE Pow2(_)
Pow2(n) == IF n = 0 THEN 1 ELSE 2 * Pow2(n - 1)

RegBits == 2 * HalfBits
HalfMod == Pow2(HalfBits)
RegMod == Pow2(RegBits)

\* Bitwise operations on n-bit unsigned values.
RECURSIVE BitAnd(_, _, _)
BitAnd(x, y, n) ==
  IF n = 0 THEN 0
  ELSE (x % 2) * (y % 2) + 2 * BitAnd(x \div 2, y \div 2, n - 1)

BitNot(x, n) == Pow2(n) - 1 - x
BitOr(x, y, n) == BitNot(BitAnd(BitNot(x, n), BitNot(y, n), n), n)
BitXor(x, y, n) == BitOr(x, y, n) - BitAnd(x, y, n)

\* The low half of a register value, and a register value with its low
\* half replaced.
Lo(x) == x % HalfMod
Hi(x) == x \div HalfMod
WithLo(x, lo) == Hi(x) * HalfMod + lo

\* Two's complement reading of an n-bit value, and its inverse.
Signed(x, n) == IF x >= Pow2(n - 1) THEN x - Pow2(n) ELSE x
Unsigned(v, n) == v % Pow2(n)

\* Shifts of an n-bit value by a count below or above n.
Shl(x, c, n) == IF c >= n THEN 0 ELSE (x * Pow2(c)) % Pow2(n)
Shr(x, c, n) == IF c >= n THEN 0 ELSE x \div Pow2(c)
Sar(x, c, n) ==
  LET v == Signed(x, n)
  IN  IF c >= n THEN Unsigned(IF v < 0 THEN -1 ELSE 0, n)
      ELSE Unsigned((v - (v % Pow2(c))) \div Pow2(c), n)

(***************************************************************************)
(* Native instructions.  a, b, c are register names, immediates or labels, *)
(* by opcode.                                                              *)
(***************************************************************************)
Ins(op, a, b, c) == [c |-> c, op |-> op, a |-> a, b |-> b]

\* The instruction that follows the lowered one in the stream.
Next1 == <<Ins("next", "-", "-", "-")>>

\* #define kScratchReg ip
kScratchReg == "ip"
kScratchDoubleReg == "d14"

(***************************************************************************)
(* Double values: exact rationals <<n, d>> in lowest terms with d > 0,     *)
(* <<1, 0>> and <<-1, 0>> for the infinities and <<0, 0>> for NaN.         *)
(* Rounding and the sign of zero are not modelled.                         *)
(***************************************************************************)
RECURSIVE Gcd(_, _)
Gcd(a, b) == IF b = 0 THEN a ELSE Gcd(b, a % b)

Abs(x) == IF x < 0 THEN -x ELSE x
Sgn(x) == IF x < 0 THEN -1 ELSE IF x > 0 THEN 1 ELSE 0

Norm(n, d) ==
  IF d = 0 THEN <<Sgn(n), 0>>
  ELSE LET g == Gcd(Abs(n), Abs(d))
       IN  <<(Sgn(d) * n) \div g, Abs(d) \div g>>

quiet_NaN == <<0, 0>>
IsNaN(x) == x = quiet_NaN
IsInf(x) == x[2] = 0 /\ x[1] # 0

FAdd(x, y) ==
  IF IsInf(x) /\ IsInf(y) /\ x = y THEN x
  ELSE Norm(x[1] * y[2] + y[1] * x[2], x[2] * y[2])
FNeg(x) == <<-x[1], x[2]>>
FSub(x, y) == FAdd(x, FNeg(y))
FMul(x, y) == Norm(x[1] * y[1], x[2] * y[2])
FRecip(x) == IF x[1] = 0 THEN (IF x[2] = 0 THEN quiet_NaN ELSE <<1, 0>>)
             ELSE Norm(x[2], x[1])
FDiv(x, y) == FMul(x, FRecip(y))

(***************************************************************************)
(* The interpreter of emitted instructions.                                *)
(***************************************************************************)
SetD(s, r, v) == [s EXCEPT !.D[r] = v, !.pc = s.pc + 1]

\* Two-operand floating-point instructions: the first operand is also the
\* destination.
ExecFloat(s, i) ==
  CASE i.op = "ldr"  -> SetD(s, i.a, s.D[i.b])
    [] i.op = "adbr" -> SetD(s, i.a, FAdd(s.D[i.a], s.D[i.b]))
    [] i.op = "sdbr" -> SetD(s, i.a, FSub(s.D[i.a], s.D[i.b]))
    [] i.op = "mdbr" -> SetD(s, i.a, FMul(s.D[i.a], s.D[i.b]))
    [] i.op = "ddbr" -> SetD(s, i.a, FDiv(s.D[i.a], s.D[i.b]))

FloatOps == {"ldr", "adbr", "sdbr", "mdbr", "ddbr"}

SetR(s, r, v) == [s EXCEPT !.R[r] = v, !.pc = s.pc + 1]

\* The shift count of a shift instruction: the low six bits of the count
\* register or of the immediate, i.e. the count modulo the register width.
ShiftCount(s, i) == (IF i.op \in {"sll", "srl", "sra", "sllg", "srlg", "srag"}
                     THEN s.R[i.c] ELSE i.c) % RegBits

\* General-register instructions.  lgr, ngr, ogr and the g-suffixed shifts
\* work on the whole register; lr, sll, srl and sra on its low half and
\* leave the high half alone.  sllg, srlg and srag read their source and
\* count before they write their destination.
ExecInt(s, i) ==
  CASE i.op = "lgr" -> SetR(s, i.a, s.R[i.b])
    [] i.op = "lr" -> SetR(s, i.a, WithLo(s.R[i.a], Lo(s.R[i.b])))
    [] i.op = "NotP" -> SetR(s, i.a, BitNot(s.R[i.a], RegBits))
    [] i.op = "AndP" -> SetR(s, i.a, BitAnd(s.R[i.b], s.R[i.c], RegBits))
    [] i.op = "OrP" -> SetR(s, i.a, BitOr(s.R[i.b], s.R[i.c], RegBits))
    [] i.op \in {"sll", "sll_i"} ->
         SetR(s, i.a, WithLo(s.R[i.a],
                             Shl(Lo(s.R[i.a]), ShiftCount(s, i), HalfBits)))
    [] i.op \in {"srl", "srl_i"} ->
         SetR(s, i.a, WithLo(s.R[i.a],
                             Shr(Lo(s.R[i.a]), ShiftCount(s, i), HalfBits)))
    [] i.op \in {"sra", "sra_i"} ->
         SetR(s, i.a, WithLo(s.R[i.a],
                             Sar(Lo(s.R[i.a]), ShiftCount(s, i), HalfBits)))
    [] i.op \in {"sllg", "sllg_i"} ->
         SetR(s, i.a, Shl(s.R[i.b], ShiftCount(s, i), RegBits))
    [] i.op \in {"srlg", "srlg_i"} ->
         SetR(s, i.a, Shr(s.R[i.b], ShiftCount(s, i), RegBits))
    [] i.op \in {"srag", "srag_i"} ->
         SetR(s, i.a, Sar(s.R[i.b], ShiftCount(s, i), RegBits))

IntOps == {"lgr", "lr", "NotP", "AndP", "OrP", "sll", "sll_i", "srl", "srl_i",
           "sra", "sra_i", "sllg", "sllg_i", "srlg", "srlg_i", "srag",
           "srag_i"}

\* Bytes and address bits of a pointer.
kPointerSize == 8
kPointerSizeLog2 == 3

\* The code address of the k-th emitted item; every item takes one
\* pointer-sized cell.
AddrOf(k) == k * kPointerSize

\* A label is bound by a bind, or is the label of a basic block that
\* follows in the stream.
IsLabel(i, l) == i.op \in {"bind", "block"} /\ i.a = l
LabelPos(c, l) == CHOOSE k \in 1..Len(c) : IsLabel(c[k], l)

\* The address a label stands for: a bind takes no room of its own, so its
\* label is the address of the item after it.
LabelAddr(c, l) ==
  LET k == LabelPos(c, l)
  IN  AddrOf(IF c[k].op = "bind" THEN k + 1 ELSE k)

\* The condition code after a comparison: 0 equal, 1 low, 2 high; 3 is
\* unordered (floating point) or overflow (arithmetic).
CcOf(x, y) == IF x = y THEN 0 ELSE IF x < y THEN 1 ELSE 2

\* The condition codes a branch condition accepts (its mask).
CondMask(cond) ==
  CASE cond = "eq" -> {0}
    [] cond = "ne" -> {1, 2, 3}
    [] cond = "lt" -> {1}
    [] cond = "le" -> {0, 1}
    [] cond = "gt" -> {2}
    [] cond = "ge" -> {0, 2}
    [] cond = "unordered" -> {3}
    [] cond = "al" -> {0, 1, 2, 3}

\* Widths of a byte and of a halfword, in proportion to HalfBits.
ByteBits == HalfBits \div 4
HalfWordBits == HalfBits \div 2

\* The layout of a double in an n-bit word, as far as the model needs it:
\* the all-ones pattern is a NaN, any other pattern the integer it spells.
BitsDouble(v, n) ==
  IF v % Pow2(n) = Pow2(n) - 1 THEN quiet_NaN
  ELSE <<Signed(v % Pow2(n), n), 1>>
DoubleBits(x, n) ==
  IF x[2] = 0
  THEN Unsigned(Pow2(n) - 1 - Abs(x[1]) * (IF x[1] < 0 THEN 2 ELSE 1), n)
  ELSE Unsigned(x[1] \div x[2], n)

\* A memory cell holds an integer (f = FALSE) or a floating-point value
\* (f = TRUE); each access addresses its own cell.
IntCell(v) == [f |-> FALSE, v |-> v]
DoubleCell(x) == [f |-> TRUE, x |-> x]
CellBits(cell) == IF cell.f THEN DoubleBits(cell.x, RegBits) ELSE cell.v

\* The word at a memory address: an entry of an emitted jump table, data
\* memory, or, where nothing was stored, a pattern of the address.
ReadMem(s, addr) ==
  LET k == addr \div kPointerSize
  IN  IF addr % kPointerSize = 0 /\ k \in 1..Len(code)
         /\ code[k].op = "label_addr"
      THEN LabelAddr(code, code[k].a)
      ELSE IF addr \in DOMAIN s.mem THEN CellBits(s.mem[addr])
      ELSE (addr + 1) % RegMod

\* The floating-point value at a memory address, read as an n-bit format.
ReadDouble(s, addr, n) ==
  IF addr \in DOMAIN s.mem /\ s.mem[addr].f THEN s.mem[addr].x
  ELSE BitsDouble(ReadMem(s, addr), n)

\* Memory with one cell replaced.
WriteMem(mem, addr, cell) ==
  [a \in (DOMAIN mem) \cup {addr} |-> IF a = addr THEN cell ELSE mem[a]]

\* The nearest multiple of 1/q to the rational a/b (b > 0), ties to even.
RoundTo(a, b, q) ==
  LET n == a * q
      fl == (n - (n % b)) \div b
      r == n - fl * b
      k == IF 2 * r < b THEN fl
           ELSE IF 2 * r > b THEN fl + 1
           ELSE IF fl % 2 = 0 THEN fl ELSE fl + 1
  IN  Norm(k, q)

\* ledbr: a double rounded to single precision (HalfBits fraction bits and
\* HalfBits integer bits in the model).
RoundToFloat32(x) ==
  IF x[2] = 0 THEN x
  ELSE LET y == RoundTo(x[1], x[2], HalfMod)
       IN  IF Abs(y[1]) >= HalfMod * y[2] THEN <<Sgn(y[1]), 0>> ELSE y

\* The address of MemOperand(rx, rb): the sum of the two registers.
EffectiveAddress(s, rx, rb) == (s.R[rx] + s.R[rb]) % RegMod

\* A load of the low `bits` bits at MemOperand(i.b, i.c) into register i.a,
\* sign- or zero-extended to the register.
LoadInt(s, i, bits, signed) ==
  LET addr == EffectiveAddress(s, i.b, i.c)
      v == ReadMem(s, addr) % Pow2(bits)
  IN  [s EXCEPT !.R[i.a] = IF signed THEN Unsigned(Signed(v, bits), RegBits)
                           ELSE v,
                !.acc = Append(@, [kind |-> "load", addr |-> addr,
                                   bits |-> bits]),
                !.pc = s.pc + 1]

LoadDouble(s, i, bits) ==
  LET addr == EffectiveAddress(s, i.b, i.c)
  IN  [s EXCEPT !.D[i.a] = ReadDouble(s, addr, bits),
                !.acc = Append(@, [kind |-> "load", addr |-> addr,
                                   bits |-> bits]),
                !.pc = s.pc + 1]

StoreInt(s, i, bits) ==
  LET addr == EffectiveAddress(s, i.b, i.c)
  IN  [s EXCEPT !.mem = WriteMem(@, addr, IntCell(s.R[i.a] % Pow2(bits))),
                !.acc = Append(@, [kind |-> "store", addr |-> addr,
                                   bits |-> bits]),
                !.pc = s.pc + 1]

StoreDouble(s, i, x, bits) ==
  LET addr == EffectiveAddress(s, i.b, i.c)
  IN  [s EXCEPT !.mem = WriteMem(@, addr, DoubleCell(x)),
                !.acc = Append(@, [kind |-> "store", addr |-> addr,
                                   bits |-> bits]),
                !.pc = s.pc + 1]

\* Loads, stores, and the instructions of the bounds check.
ExecMem(s, i) ==
  CASE i.op = "lgfr" ->
         SetR(s, i.a, Unsigned(Signed(Lo(s.R[i.b]), HalfBits), RegBits))
    [] i.op = "lgbr" ->
         SetR(s, i.a, Unsigned(Signed(s.R[i.b] % Pow2(ByteBits), ByteBits),
                               RegBits))
    [] i.op = "CmpLogical32" ->
         [s EXCEPT !.cc = CcOf(Lo(s.R[i.a]), Lo(s.R[i.b])), !.pc = s.pc + 1]
    [] i.op = "CmpLogical32_i" ->
         [s EXCEPT !.cc = CcOf(Lo(s.R[i.a]), i.c % HalfMod), !.pc = s.pc + 1]
    [] i.op = "LoadImmP" -> SetR(s, i.a, Unsigned(i.c, RegBits))
    [] i.op = "LoadDoubleLiteral" ->
         [s EXCEPT !.D[i.a] = i.b, !.R[i.c] = DoubleBits(i.b, RegBits),
                   !.pc = s.pc + 1]
    [] i.op = "LoadlB" -> LoadInt(s, i, ByteBits, FALSE)
    [] i.op = "LoadLogicalHalfWordP" -> LoadInt(s, i, HalfWordBits, FALSE)
    [] i.op = "LoadHalfWordP" -> LoadInt(s, i, HalfWordBits, TRUE)
    [] i.op = "LoadW" -> LoadInt(s, i, HalfBits, TRUE)
    [] i.op \in {"LoadP", "lg"} -> LoadInt(s, i, RegBits, FALSE)
    [] i.op = "LoadShortConvertToDoubleF" -> LoadDouble(s, i, HalfBits)
    [] i.op = "LoadF" -> LoadDouble(s, i, RegBits)
    [] i.op = "StoreByte" -> StoreInt(s, i, ByteBits)
    [] i.op = "StoreHalfWord" -> StoreInt(s, i, HalfWordBits)
    [] i.op = "StoreW" -> StoreInt(s, i, HalfBits)
    [] i.op = "StoreP" -> StoreInt(s, i, RegBits)
    [] i.op = "StoreF" -> StoreDouble(s, i, s.D[i.a], RegBits)

\* Loads and stores at MemOperand(base register i.b, displacement i.c).
ExecDisp(s, i) ==
  LET addr == (s.R[i.b] + RegMod + i.c) % RegMod
      load == [kind |-> "load", addr |-> addr, bits |-> RegBits]
      store == [kind |-> "store", addr |-> addr, bits |-> RegBits]
  IN  CASE i.op = "LoadP_d" ->
             [s EXCEPT !.R[i.a] = ReadMem(s, addr), !.acc = Append(@, load),
                       !.pc = s.pc + 1]
        [] i.op = "LoadF_d" ->
             [s EXCEPT !.D[i.a] = ReadDouble(s, addr, RegBits),
                       !.acc = Append(@, load), !.pc = s.pc + 1]
        [] i.op = "StoreP_d" ->
             [s EXCEPT !.mem = WriteMem(@, addr, IntCell(s.R[i.a])),
                       !.acc = Append(@, store), !.pc = s.pc + 1]
        [] i.op = "StoreF_d" ->
             [s EXCEPT !.mem = WriteMem(@, addr, DoubleCell(s.D[i.a])),
                       !.acc = Append(@, store), !.pc = s.pc + 1]

DispOps == {"LoadP_d", "LoadF_d", "StoreP_d", "StoreF_d"}

\* StoreDoubleAsFloat32(src, mem, scratch): ledbr(scratch, src);
\* StoreShortF(scratch, mem).  i.a is <<src, scratch>>.
ExecStoreDoubleAsFloat32(s, i) ==
  LET x == RoundToFloat32(s.D[i.a[1]])
      t == [s EXCEPT !.D[i.a[2]] = x]
  IN  StoreDouble(t, i, x, HalfBits)

LoadOps == {"LoadlB", "LoadLogicalHalfWordP", "LoadHalfWordP", "LoadW",
            "LoadP", "lg", "LoadShortConvertToDoubleF", "LoadF"}
StoreOps == {"StoreByte", "StoreHalfWord", "StoreW", "StoreP", "StoreF",
             "StoreDoubleAsFloat32"}
MemOps == (LoadOps \cup StoreOps \cup
           {"lgfr", "lgbr", "CmpLogical32", "CmpLogical32_i", "LoadImmP",
            "LoadDoubleLiteral"}) \ {"StoreDoubleAsFloat32"}

\* Registers in the order of their codes, and those of a RegList in that
\* order.
RegOrder == <<"r6", "r7", "r8">>
DoubleRegOrder == <<"d8", "d9">>
RegSeq(order, regs) ==
  LET RECURSIVE Pick(_)
      Pick(k) == IF k > Len(order) THEN <<>>
                 ELSE (IF order[k] \in regs THEN <<order[k]>> ELSE <<>>)
                        \o Pick(k + 1)
  IN  Pick(1)

\* Memory with the cells written at base, base + kPointerSize, ...
WriteCells(mem, base, cells) ==
  LET addrs == {(base + (k - 1) * kPointerSize) % RegMod : k \in 1..Len(cells)}
  IN  [a \in (DOMAIN mem) \cup addrs |->
         IF a \in addrs
         THEN cells[CHOOSE k \in 1..Len(cells) :
                      a = (base + (k - 1) * kPointerSize) % RegMod]
         ELSE mem[a]]

\* MacroAssembler::Push(src1, src2), PushFixedFrame with fp adjustment
\* (Prologue, StubPrologue), MultiPush, MultiPop, MultiPushDoubles,
\* MultiPopDoubles, LeaveFrame, Drop, Ret, lay; and the function body, which
\* overwrites what it may: the callee-saved registers of the convention,
\* the link register if there is a frame, the scratch registers and the
\* spill slots.
ExecFrame(s, i) ==
  LET sp == s.R["sp"]
      fp == s.R["fp"]
      Down(n) == (sp + RegMod - n * kPointerSize) % RegMod
      Up(n) == (sp + n * kPointerSize) % RegMod
      SlotAt(base, k) == (base + (k - 1) * kPointerSize) % RegMod
  IN
  CASE i.op = "Push2" ->
         [s EXCEPT !.mem = WriteCells(@, Down(2), <<IntCell(s.R[i.b]),
                                                    IntCell(s.R[i.a])>>),
                   !.R["sp"] = Down(2), !.pc = s.pc + 1]
    [] i.op \in {"Prologue", "StubPrologue"} ->
         [s EXCEPT !.mem = WriteCells(@, Down(4),
                             <<IF i.op = "Prologue" THEN IntCell(s.R["r3"])
                               ELSE IntCell(1),
                               IntCell(s.R["cp"]), IntCell(fp),
                               IntCell(s.R["r14"])>>),
                   !.R["sp"] = Down(4), !.R["fp"] = Down(2),
                   !.pc = s.pc + 1]
    [] i.op = "lay" -> SetR(s, i.a, (s.R[i.b] + RegMod + i.c) % RegMod)
    [] i.op = "MultiPush" ->
         LET regs == RegSeq(RegOrder, i.a)
         IN  [s EXCEPT !.mem = WriteCells(@, Down(Len(regs)),
                                 [k \in 1..Len(regs) |-> IntCell(s.R[regs[k]])]),
                       !.R["sp"] = Down(Len(regs)), !.pc = s.pc + 1]
    [] i.op = "MultiPushDoubles" ->
         LET regs == RegSeq(DoubleRegOrder, i.a)
         IN  [s EXCEPT !.mem = WriteCells(@, Down(Len(regs)),
                                 [k \in 1..Len(regs) |->
                                    DoubleCell(s.D[regs[k]])]),
                       !.R["sp"] = Down(Len(regs)), !.pc = s.pc + 1]
    [] i.op = "MultiPop" ->
         LET regs == RegSeq(RegOrder, i.a)
         IN  [s EXCEPT !.R = [r \in DOMAIN s.R |->
                                IF r = "sp" THEN Up(Len(regs))
                                ELSE IF r \in i.a
                                THEN ReadMem(s, SlotAt(sp,
                                       CHOOSE k \in 1..Len(regs) : regs[k] = r))
                                ELSE s.R[r]],
                       !.pc = s.pc + 1]
    [] i.op = "MultiPopDoubles" ->
         LET regs == RegSeq(DoubleRegOrder, i.a)
         IN  [s EXCEPT !.D = [d \in DOMAIN s.D |->
                                IF d \in i.a
                                THEN ReadDouble(s, SlotAt(sp,
                                       CHOOSE k \in 1..Len(regs) : regs[k] = d),
                                       RegBits)
                                ELSE s.D[d]],
                       !.R["sp"] = Up(Len(regs)), !.pc = s.pc + 1]
    [] i.op = "LeaveFrame" ->
         [s EXCEPT !.R["r14"] = ReadMem(s, (fp + kPointerSize) % RegMod),
                   !.R["r1"] = (fp + 2 * kPointerSize + i.c) % RegMod,
                   !.R["fp"] = ReadMem(s, fp),
                   !.R["sp"] = (fp + 2 * kPointerSize + i.c) % RegMod,
                   !.pc = s.pc + 1]
    [] i.op = "Drop" -> SetR(s, "sp", Up(i.c))
    [] i.op = "Ret" -> [s EXCEPT !.pc = 0]
    [] i.op = "body" ->
         [s EXCEPT !.R = [r \in DOMAIN s.R |->
                            IF r \in i.a.saves \cup {"ip", "r1"}
                               \/ (r = "r14" /\ i.a.link)
                            THEN BitNot(s.R[r], RegBits) ELSE s.R[r]],
                   !.D = [d \in DOMAIN s.D |->
                            IF d \in i.a.double_saves THEN FNeg(FAdd(s.D[d],
                                                                   <<1, 1>>))
                            ELSE s.D[d]],
                   !.mem = WriteCells(@, SlotAt(sp, i.a.first_slot),
                                      [k \in 1..i.a.slots |-> IntCell(k)]),
                   !.pc = s.pc + 1]

FrameOps == {"Push2", "Prologue", "StubPrologue", "lay", "MultiPush",
             "MultiPushDoubles", "MultiPop", "MultiPopDoubles", "LeaveFrame",
             "Drop", "Ret", "body"}

\* A signed n-bit immediate as a register value.
SignExtendImm(v) == (v + RegMod) % RegMod

\* Pointer-width add, subtract and signed compare.
ExecArith(s, i) ==
  CASE i.op = "AddP" -> SetR(s, i.a, (s.R[i.b] + s.R[i.c]) % RegMod)
    [] i.op = "AddP_i" ->
         SetR(s, i.a, (s.R[i.b] + SignExtendImm(i.c)) % RegMod)
    [] i.op = "SubP" -> SetR(s, i.a, (s.R[i.b] + RegMod - s.R[i.c]) % RegMod)
    [] i.op = "SubP_i" ->
         SetR(s, i.a, (s.R[i.b] + RegMod - SignExtendImm(i.c)) % RegMod)
    [] i.op = "CmpP" ->
         [s EXCEPT !.cc = CcOf(Signed(s.R[i.a], RegBits),
                               Signed(s.R[i.b], RegBits)),
                   !.pc = s.pc + 1]

ArithOps == {"AddP", "AddP_i", "SubP", "SubP_i", "CmpP"}

\* Compare, branch, address and load instructions.
ExecControl(s, i) ==
  CASE i.op = "CmpLogicalP_i" ->
         [s EXCEPT !.cc = CcOf(s.R[i.a], i.c % HalfMod), !.pc = s.pc + 1]
    [] i.op = "b" ->
         [s EXCEPT !.pc = IF s.cc \in CondMask(i.a)
                          THEN LabelPos(code, i.c) ELSE s.pc + 1]
    [] i.op = "larl" -> SetR(s, i.a, LabelAddr(code, i.c) % RegMod)
    [] i.op = "ShiftLeftP_i" -> SetR(s, i.a, Shl(s.R[i.b], i.c, RegBits))
    [] i.op = "LoadP_rr" ->
         SetR(s, i.a, ReadMem(s, (s.R[i.b] + s.R[i.c]) % RegMod))
    [] i.op = "Jump" ->
         [s EXCEPT !.pc = IF s.R[i.a] % kPointerSize = 0
                          THEN s.R[i.a] \div kPointerSize ELSE 0]

ControlOps == {"CmpLogicalP_i", "b", "larl", "ShiftLeftP_i", "LoadP_rr",
               "Jump"}

\* The condition code of a comparison of two doubles: 3 when either is NaN.
CcOfDouble(x, y) ==
  IF IsNaN(x) \/ IsNaN(y) THEN 3
  ELSE IF x[2] = 0 /\ y[2] = 0 THEN CcOf(x[1], y[1])
  ELSE CcOf(x[1] * y[2], y[1] * x[2])

\* The condition code of a load-and-test of a register value.
CcOfTest(v) == CcOf(Signed(v, RegBits), 0)

\* The sum or difference, the overflow indicator left in overflow_dst (its
\* sign bit is set exactly on signed overflow) and the condition code of
\* MacroAssembler::AddAndCheckForOverflow / SubAndCheckForOverflow.
CheckForOverflow(s, i, left, right, isadd) ==
  LET dst == IF isadd THEN (left + right) % RegMod
             ELSE (left + RegMod - right) % RegMod
      ovf == IF isadd
             THEN BitAnd(BitXor(dst, left, RegBits), BitXor(dst, right, RegBits),
                         RegBits)
             ELSE BitAnd(BitXor(dst, left, RegBits), BitXor(left, right, RegBits),
                         RegBits)
  IN  [s EXCEPT !.R = [@ EXCEPT ![i.a] = dst, ![kScratchReg] = ovf],
                !.cc = CcOfTest(ovf), !.pc = s.pc + 1]

\* Compare instructions and the add and subtract that test for overflow.
ExecCompare(s, i) ==
  CASE i.op = "cdbr" ->
         [s EXCEPT !.cc = CcOfDouble(s.D[i.a], s.D[i.b]), !.pc = s.pc + 1]
    [] i.op = "Cmp32" ->
         [s EXCEPT !.cc = CcOf(Signed(Lo(s.R[i.a]), HalfBits),
                               Signed(Lo(s.R[i.b]), HalfBits)),
                   !.pc = s.pc + 1]
    [] i.op = "Cmp32_i" ->
         [s EXCEPT !.cc = CcOf(Signed(Lo(s.R[i.a]), HalfBits), i.c),
                   !.pc = s.pc + 1]
    [] i.op = "CmpP_i" ->
         [s EXCEPT !.cc = CcOf(Signed(s.R[i.a], RegBits), i.c),
                   !.pc = s.pc + 1]
    [] i.op = "CmpLogicalP" ->
         [s EXCEPT !.cc = CcOf(s.R[i.a], s.R[i.b]), !.pc = s.pc + 1]
    [] i.op = "AddAndCheckForOverflow" ->
         CheckForOverflow(s, i, s.R[i.b], s.R[i.c], TRUE)
    [] i.op = "AddAndCheckForOverflow_i" ->
         CheckForOverflow(s, i, s.R[i.b], SignExtendImm(i.c), TRUE)
    [] i.op = "SubAndCheckForOverflow" ->
         CheckForOverflow(s, i, s.R[i.b], s.R[i.c], FALSE)

CompareOps == {"cdbr", "Cmp32", "Cmp32_i", "CmpP_i", "CmpLogicalP",
               "AddAndCheckForOverflow", "AddAndCheckForOverflow_i",
               "SubAndCheckForOverflow"}

\* The integral value a rounding mode of fidbra selects for the rational
\* n/d (d > 0).
RoundIntegral(n, d, mode) ==
  LET floor == n \div d
      ceiling == 0 - ((0 - n) \div d)
  IN  CASE mode = "FIDBRA_ROUND_TOWARD_NEG_INF" -> floor
        [] mode = "FIDBRA_ROUND_TOWARD_POS_INF" -> ceiling
        [] mode = "FIDBRA_ROUND_TOWARD_0" -> IF n >= 0 THEN floor ELSE ceiling
        [] mode = "FIDBRA_ROUND_TO_NEAREST_AWAY_FROM_0" ->
             Sgn(n) * ((2 * Abs(n) + d) \div (2 * d))
        [] mode = "FIDBRA_ROUND_TO_NEAREST_TO_EVEN" ->
             IF 2 * (n - floor * d) < d THEN floor
             ELSE IF 2 * (n - floor * d) > d THEN ceiling
             ELSE IF floor % 2 = 0 THEN floor ELSE ceiling

\* fidbra(dst, src, mode), and MacroAssembler::FloatFloor64 and
\* FloatCeiling64 (dst, src, scratch), which leave the scratch register
\* with no value of the program.
ExecRound(s, i) ==
  LET x == s.D[i.b]
      Round(mode) == IF x[2] = 0 THEN x
                     ELSE <<RoundIntegral(x[1], x[2], mode), 1>>
  IN  CASE i.op = "fidbra" -> SetD(s, i.a, Round(i.c))
        [] i.op = "FloatFloor64" ->
             [s EXCEPT !.D[i.a] = Round("FIDBRA_ROUND_TOWARD_NEG_INF"),
                       !.R[i.c] = 0, !.pc = s.pc + 1]
        [] i.op = "FloatCeiling64" ->
             [s EXCEPT !.D[i.a] = Round("FIDBRA_ROUND_TOWARD_POS_INF"),
                       !.R[i.c] = 0, !.pc = s.pc + 1]

RoundOps == {"fidbra", "FloatFloor64", "FloatCeiling64"}

\* Division that truncates toward zero, and its remainder.
TruncDiv(a, b) == Sgn(a) * Sgn(b) * (Abs(a) \div Abs(b))
TruncRem(a, b) == a - b * TruncDiv(a, b)

\* The 64-bit value of the even-odd pair r0:r1: the low halves of the two
\* registers.
PairBits == 2 * HalfBits
PairOf(s) == Lo(s.R["r0"]) * HalfMod + Lo(s.R["r1"])
SetLo(old, v) == (old - Lo(old)) + (v % HalfMod)
SetPair(s, p) ==
  [s EXCEPT !.R["r0"] = SetLo(@, (p % Pow2(PairBits)) \div HalfMod),
            !.R["r1"] = SetLo(@, p % HalfMod),
            !.pc = s.pc + 1]

\* srda and srdl (shift right double), dr and dlr (divide: remainder to the
\* even, quotient to the odd register; a zero divisor or a quotient that
\* does not fit ends the program with a fixed-point divide exception), and
\* ltr (load and test the low half).
ExecDivide(s, i) ==
  CASE i.op = "srda" ->
         SetPair(s, Unsigned(Signed(PairOf(s), PairBits) \div Pow2(i.c),
                             PairBits))
    [] i.op = "srdl" -> SetPair(s, PairOf(s) \div Pow2(i.c))
    [] i.op = "dr" ->
         LET dividend == Signed(PairOf(s), PairBits)
             divisor == Signed(Lo(s.R[i.b]), HalfBits)
         IN  IF divisor = 0 THEN [s EXCEPT !.pc = 0]
             ELSE IF TruncDiv(dividend, divisor) \notin
                       (0 - HalfMod \div 2)..(HalfMod \div 2 - 1)
             THEN [s EXCEPT !.pc = 0]
             ELSE [s EXCEPT
                     !.R["r0"] = SetLo(@, Unsigned(TruncRem(dividend, divisor),
                                                   HalfBits)),
                     !.R["r1"] = SetLo(@, Unsigned(TruncDiv(dividend, divisor),
                                                   HalfBits)),
                     !.pc = s.pc + 1]
    [] i.op = "dlr" ->
         LET dividend == PairOf(s)
             divisor == Lo(s.R[i.b])
         IN  IF divisor = 0 THEN [s EXCEPT !.pc = 0]
             ELSE IF dividend \div divisor >= HalfMod
             THEN [s EXCEPT !.pc = 0]
             ELSE [s EXCEPT !.R["r0"] = SetLo(@, dividend % divisor),
                            !.R["r1"] = SetLo(@, dividend \div divisor),
                            !.pc = s.pc + 1]
    [] i.op = "ltr" ->
         [s EXCEPT !.R[i.a] = SetLo(@, Lo(s.R[i.b])),
                   !.cc = CcOf(Signed(Lo(s.R[i.b]), HalfBits), 0),
                   !.pc = s.pc + 1]

DivideOps == {"srda", "srdl", "dr", "dlr", "ltr"}

\* Pages of the heap: the page of an address, and the two page flags the
\* write barrier looks at.
kPageSizeBits == 6
PageOf(addr) == addr \div Pow2(kPageSizeBits)
kPointersFromHereAreInterestingMask == "POINTERS_FROM_HERE_ARE_INTERESTING"
kPointersToHereAreInterestingMask == "POINTERS_TO_HERE_ARE_INTERESTING"

\* A Smi has a clear tag bit.
IsSmi(v) == v % 2 = 0

\* CheckPageFlag(object, scratch, mask, cc, label): the flags of the page of
\* the object are loaded through the scratch register and tested under the
\* mask; the branch is taken when the test is as cc says (ne: a flag of the
\* mask is set).  JumpIfSmi(value, label).  CallStub of the RecordWriteStub
\* on (object, value scratch, address): the call is noted in the accesses.
ExecBarrier(s, i) ==
  CASE i.op = "CheckPageFlag" ->
         LET object == i.a[1]
             scratch == i.a[2]
             set == i.b[1] \in s.flags[PageOf(s.R[object])]
             met == IF i.b[2] = "ne" THEN set ELSE ~set
         IN  [s EXCEPT !.R[scratch] = PageOf(s.R[object])
                                        * Pow2(kPageSizeBits),
                       !.cc = IF set THEN 1 ELSE 0,
                       !.pc = IF met THEN LabelPos(code, i.c) ELSE s.pc + 1]
    [] i.op = "JumpIfSmi" ->
         [s EXCEPT !.pc = IF IsSmi(s.R[i.a]) THEN LabelPos(code, i.c)
                          ELSE s.pc + 1]
    [] i.op = "CallStub" ->
         [s EXCEPT !.acc = Append(@, [kind |-> "record_write",
                                      addr |-> s.R[i.b[3]],
                                      bits |-> s.R[i.b[1]]]),
                   !.pc = s.pc + 1]

BarrierOps == {"CheckPageFlag", "JumpIfSmi", "CallStub"}

\* The entry of the root list at an index.
RootValue(index) == 160 + index

\* mov, Move(dst, handle) and LoadRoot.
ExecGap(s, i) ==
  CASE i.op = "mov" -> SetR(s, i.a, Unsigned(i.c, RegBits))
    [] i.op = "Move_h" -> SetR(s, i.a, i.c)
    [] i.op = "LoadRoot" -> SetR(s, i.a, RootValue(i.c))

GapOps == {"mov", "Move_h", "LoadRoot"}

Exec(s, i) ==
  CASE i.op \in FloatOps -> ExecFloat(s, i)
    [] i.op \in CompareOps -> ExecCompare(s, i)
    [] i.op \in DispOps -> ExecDisp(s, i)
    [] i.op = "Abort" -> [s EXCEPT !.pc = 0]
    [] i.op \in GapOps -> ExecGap(s, i)
    [] i.op \in RoundOps -> ExecRound(s, i)
    [] i.op \in DivideOps -> ExecDivide(s, i)
    [] i.op \in BarrierOps -> ExecBarrier(s, i)
    [] i.op \in IntOps -> ExecInt(s, i)
    [] i.op \in ControlOps -> ExecControl(s, i)
    [] i.op \in MemOps -> ExecMem(s, i)
    [] i.op \in FrameOps -> ExecFrame(s, i)
    [] i.op \in ArithOps -> ExecArith(s, i)
    [] i.op = "StoreDoubleAsFloat32" -> ExecStoreDoubleAsFloat32(s, i)
    [] i.op = "bind" -> [s EXCEPT !.pc = s.pc + 1]

\* Execution of the lowered instruction's code has ended: control is at the
\* instruction that follows it in the stream, at the start of a basic
\* block, or outside the emitted code.
Halted ==
  IF m.pc \notin 1..Len(code) THEN TRUE
  ELSE code[m.pc].op \in {"next", "block"}

Execute ==
  /\ phase = "run"
  /\ ~Halted
  /\ m' = Exec(m, code[m.pc])
  /\ trace' = Append(trace, code[m.pc])
  /\ UNCHANGED <<instr, gen, code, m0, phase>>

Finish ==
  /\ phase = "run"
  /\ Halted
  /\ phase' = "done"
  /\ UNCHANGED <<instr, gen, code, m, m0, trace>>

(***************************************************************************)
(* Floating-point binary arithmetic (kS390_AddDouble .. kS390_DivDouble).  *)
(***************************************************************************)
\* ASSEMBLE_FLOAT_UNOP(asm_instr)
ASSEMBLE_FLOAT_UNOP(asm_instr, i) == <<Ins(asm_instr, i.out, i.in0, "-")>>

kS390_AddDouble(i) ==
  IF i.out = i.in1 THEN ASSEMBLE_FLOAT_UNOP("adbr", i)
  ELSE (IF i.out # i.in0 THEN <<Ins("ldr", i.out, i.in0, "-")>> ELSE <<>>)
       \o <<Ins("adbr", i.out, i.in1, "-")>>

SubDouble_NoScratchCopy(i) ==
  (IF i.out # i.in0 THEN <<Ins("ldr", i.out, i.in0, "-")>> ELSE <<>>)
  \o <<Ins("sdbr", i.out, i.in1, "-")>>

kS390_SubDouble(i) ==
  IF i.out = i.in1
  THEN <<Ins("ldr", kScratchDoubleReg, i.in1, "-"),
         Ins("ldr", i.out, i.in0, "-"),
         Ins("sdbr", i.out, kScratchDoubleReg, "-")>>
  ELSE (IF i.out # i.in0 THEN <<Ins("ldr", i.out, i.in0, "-")>> ELSE <<>>)
       \o <<Ins("sdbr", i.out, i.in1, "-")>>

kS390_MulDouble(i) ==
  IF i.out = i.in1 THEN ASSEMBLE_FLOAT_UNOP("mdbr", i)
  ELSE (IF i.out # i.in0 THEN <<Ins("ldr", i.out, i.in0, "-")>> ELSE <<>>)
       \o <<Ins("mdbr", i.out, i.in1, "-")>>

kS390_DivDouble(i) ==
  IF i.out = i.in1
  THEN <<Ins("ldr", kScratchDoubleReg, i.in1, "-"),
         Ins("ldr", i.out, i.in0, "-"),
         Ins("ddbr", i.out, kScratchDoubleReg, "-")>>
  ELSE (IF i.out # i.in0 THEN <<Ins("ldr", i.out, i.in0, "-")>> ELSE <<>>)
       \o <<Ins("ddbr", i.out, i.in1, "-")>>

FloatBinops == {"kS390_AddDouble", "kS390_SubDouble", "kS390_MulDouble",
                "kS390_DivDouble"}

AssembleFloatBinop ==
  /\ phase = "lower"
  /\ instr.op \in FloatBinops
  /\ code' = (CASE instr.op = "kS390_AddDouble" -> kS390_AddDouble(instr)
                [] instr.op = "kS390_SubDouble" -> kS390_SubDouble(instr)
                [] instr.op = "kS390_MulDouble" -> kS390_MulDouble(instr)
                [] instr.op = "kS390_DivDouble" -> kS390_DivDouble(instr))
             \o Next1
  /\ phase' = "run"
  /\ UNCHANGED <<instr, gen, m, m0, trace>>

(***************************************************************************)
(* Integer bitwise and shift opcodes.                                      *)
(***************************************************************************)
\* HasRegisterInput(instr, 1)
HasRegisterInput1(i) == i.reg1

LoadRR(dst, src) == <<Ins("lgr", dst, src, "-")>>

\* MacroAssembler::ShiftLeft / ShiftRight / ShiftRightArith (dst, src, val):
\* the 32-bit shifts are two-operand instructions, so a source other than
\* the destination is first copied into the destination.
Shift32(op, dst, src, val, isreg) ==
  (IF dst = src THEN <<>> ELSE <<Ins("lr", dst, src, "-")>>)
  \o <<Ins(IF isreg THEN op ELSE op \o "_i", dst, "-", val)>>

\* ASSEMBLE_BINOP(asm_instr_reg, asm_instr_imm) with a 32-bit shift macro
ASSEMBLE_BINOP_Shift32(op, i) ==
  Shift32(op, i.out, i.in0, i.in1, HasRegisterInput1(i))

\* ASSEMBLE_BINOP(sllg, sllg) and its srlg, srag forms
ASSEMBLE_BINOP_Shift64(op, i) ==
  <<Ins(IF HasRegisterInput1(i) THEN op ELSE op \o "_i", i.out, i.in0, i.in1)>>

kS390_AndComplement(i) ==
  <<Ins("NotP", i.in1, "-", "-"), Ins("AndP", i.out, i.in0, i.in1)>>

kS390_OrComplement(i) ==
  <<Ins("NotP", i.in1, "-", "-"), Ins("OrP", i.out, i.in0, i.in1)>>

\* kS390_ShiftLeft32, kS390_ShiftRight32, kS390_ShiftRightAlg32 share one
\* shape; op is the native shift.
Shift32_NoScratchCopy(op, i) == ASSEMBLE_BINOP_Shift32(op, i)

kS390_Shift32(op, i) ==
  IF HasRegisterInput1(i)
  THEN IF i.out = i.in1
       THEN LoadRR(kScratchReg, i.in1)
            \o Shift32(op, i.out, i.in0, kScratchReg, TRUE)
       ELSE ASSEMBLE_BINOP_Shift32(op, i)
  ELSE ASSEMBLE_BINOP_Shift32(op, i)

kS390_ShiftLeft32(i) == kS390_Shift32("sll", i)
kS390_ShiftRight32(i) == kS390_Shift32("srl", i)
kS390_ShiftRightAlg32(i) == kS390_Shift32("sra", i)
kS390_ShiftLeft64(i) == ASSEMBLE_BINOP_Shift64("sllg", i)
kS390_ShiftRight64(i) == ASSEMBLE_BINOP_Shift64("srlg", i)
kS390_ShiftRightAlg64(i) == ASSEMBLE_BINOP_Shift64("srag", i)

ComplementOps == {"kS390_AndComplement", "kS390_OrComplement"}
Shift32Ops == {"kS390_ShiftLeft32", "kS390_ShiftRight32",
               "kS390_ShiftRightAlg32"}
Shift64Ops == {"kS390_ShiftLeft64", "kS390_ShiftRight64",
               "kS390_ShiftRightAlg64"}
ShiftOps == Shift32Ops \cup Shift64Ops

AssembleComplement ==
  /\ phase = "lower"
  /\ instr.op \in ComplementOps
  /\ code' = (IF instr.op = "kS390_AndComplement"
              THEN kS390_AndComplement(instr)
              ELSE kS390_OrComplement(instr)) \o Next1
  /\ phase' = "run"
  /\ UNCHANGED <<instr, gen, m, m0, trace>>

AssembleShift ==
  /\ phase = "lower"
  /\ instr.op \in ShiftOps
  /\ code' = (CASE instr.op = "kS390_ShiftLeft32" -> kS390_ShiftLeft32(instr)
                [] instr.op = "kS390_ShiftRight32" -> kS390_ShiftRight32(instr)
                [] instr.op = "kS390_ShiftRightAlg32" ->
                     kS390_ShiftRightAlg32(instr)
                [] instr.op = "kS390_ShiftLeft64" -> kS390_ShiftLeft64(instr)
                [] instr.op = "kS390_ShiftRight64" -> kS390_ShiftRight64(instr)
                [] instr.op = "kS390_ShiftRightAlg64" ->
                     kS390_ShiftRightAlg64(instr)) \o Next1
  /\ phase' = "run"
  /\ UNCHANGED <<instr, gen, m, m0, trace>>

\* General registers the register allocator may assign, and the reserved
\* scratch registers.
AllocRegs == {"r2", "r3", "r4"}
ScratchRegs == {kScratchReg, "r0", "r1"}

IntSamples == {0, 1, 2, HalfMod \div 2 + 1, RegMod - 1}
CountSamples == {0, 1, HalfBits - 1, HalfBits + 1}

InitInt ==
  /\ instr \in [op : ComplementOps \cup ShiftOps, out : AllocRegs,
                in0 : AllocRegs, in1 : AllocRegs, reg1 : {TRUE}]
            \cup [op : ShiftOps, out : AllocRegs, in0 : AllocRegs,
                  in1 : CountSamples, reg1 : {FALSE}]
  /\ \E r \in [AllocRegs -> IntSamples] :
       m = [R |-> [x \in AllocRegs \cup ScratchRegs |->
                     IF x \in AllocRegs THEN r[x] ELSE RegMod - 2],
            pc |-> 1]
  /\ m0 = m
  /\ gen = NoGen
  /\ code = <<>>
  /\ trace = <<>>
  /\ phase = "lower"

NextInt == AssembleComplement \/ AssembleShift \/ Execute \/ Finish

SpecInt == InitInt /\ [][NextInt]_vars

\* The value of a complement opcode on register values.
ComplementOpOf(op, x, y) ==
  IF op = "kS390_AndComplement" THEN BitAnd(x, BitNot(y, RegBits), RegBits)
  ELSE BitOr(x, BitNot(y, RegBits), RegBits)

\* C2: for AndComplement and OrComplement and every aliasing of output,
\* input 0 and input 1 (input 0 = input 1 included), the output register
\* receives input0 AND (NOT input1), respectively input0 OR (NOT input1),
\* on the values the registers held before the instruction.
C2_ComplementPreClobber ==
  (phase = "done" /\ instr.op \in ComplementOps) =>
     m.R[instr.out] =
       ComplementOpOf(instr.op, m0.R[instr.in0], m0.R[instr.in1])

\* The value of a shift opcode on its first input and a count.
ShiftOpOf(op, x, c) ==
  CASE op = "kS390_ShiftLeft32" -> Shl(Lo(x), c, HalfBits)
    [] op = "kS390_ShiftRight32" -> Shr(Lo(x), c, HalfBits)
    [] op = "kS390_ShiftRightAlg32" -> Sar(Lo(x), c, HalfBits)
    [] op = "kS390_ShiftLeft64" -> Shl(x, c, RegBits)
    [] op = "kS390_ShiftRight64" -> Shr(x, c, RegBits)
    [] op = "kS390_ShiftRightAlg64" -> Sar(x, c, RegBits)

\* The result of a shift opcode: the low half of the output register for a
\* 32-bit shift, the whole register for a 64-bit one.
ShiftResult(op, x) == IF op \in Shift32Ops THEN Lo(x) ELSE x

ShiftResultRight ==
  ShiftResult(instr.op, m.R[instr.out]) =
    ShiftOpOf(instr.op, m0.R[instr.in0], m0.R[instr.in1] % RegBits)

\* The emitted sequence starts by copying the count register to the scratch
\* register, and the shift instruction takes its count from the scratch
\* register.
CountCopiedToScratch ==
  /\ Len(code) >= 3
  /\ code[1] = Ins("lgr", kScratchReg, instr.in1, "-")
  /\ code[Len(code) - 1].c = kScratchReg

\* C3 as stated: for every shift opcode with a register count, 32-bit or
\* 64-bit, whenever the output register is the count register the count is
\* first copied to the scratch register, the shift uses the copy, and the
\* result is input 0 shifted by the count held before the instruction.
C3_EveryShiftCopiesCount ==
  (phase = "done" /\ instr.op \in ShiftOps /\ instr.reg1
     /\ instr.out = instr.in1) =>
       CountCopiedToScratch /\ ShiftResultRight

\* C3 amended: the copy to the scratch register is made by the 32-bit shift
\* opcodes only; the 64-bit shift opcodes emit one three-operand shift that
\* names the count register itself.  Either way the result is input 0
\* shifted by the count held before the instruction.
C3_Shift32CopiesCount ==
  (phase = "done" /\ instr.op \in ShiftOps /\ instr.reg1
     /\ instr.out = instr.in1) =>
       /\ ShiftResultRight
       /\ instr.op \in Shift32Ops => CountCopiedToScratch
       /\ instr.op \in Shift64Ops =>
            /\ Len(code) = 2
            /\ code[1].c = instr.in1
            /\ ~CountCopiedToScratch

\* A 32-bit left shift whose output is the count register and not input 0
\* has run: 1 shifted by 1.
C3_Witness ==
  /\ phase = "done"
  /\ instr.op = "kS390_ShiftLeft32" /\ instr.reg1
  /\ instr.out = instr.in1 /\ instr.out # instr.in0
  /\ m0.R[instr.in0] = 1 /\ m0.R[instr.in1] = 1
  /\ Lo(m.R[instr.out]) = 2
  /\ m.R[kScratchReg] = 1

(***************************************************************************)
(* Table switch and jump tables.                                           *)
(***************************************************************************)
\* Largest number of cases of a table switch, and the basic blocks a
\* switch may name (RpoNumbers).
MaxCases == 3
Blocks == 0..MaxCases

\* Sequences over S of length 0..n.
SeqsUpTo(S, n) == UNION {[1..k -> S] : k \in 0..n}

\* The label of the basic block with the given RpoNumber.
GetLabel(rpo) == <<"block", rpo>>

\* The basic blocks that follow in the stream, each starting at its label.
BlockStubs ==
  [b \in 1..Cardinality(Blocks) |-> Ins("block", GetLabel(b - 1), "-", "-")]

\* The label of the k-th jump table.
TableLabel(k) == <<"table", k>>

BoundsCheck_bgt(input, case_count, default) ==
  <<Ins("CmpLogicalP_i", input, "-", case_count),
    Ins("b", "gt", "-", default)>>

\* __ CmpLogicalP(input, Operand(case_count)); __ bge(GetLabel(i.InputRpo(1)));
TableSwitchBoundsCheck(input, case_count, default) ==
  <<Ins("CmpLogicalP_i", input, "-", case_count),
    Ins("b", "ge", "-", default)>>

\* CodeGenerator::AssembleArchTableSwitch: the cases are inputs 2.. of the
\* instruction, the default block is input 1.
AssembleArchTableSwitch ==
  /\ phase = "lower"
  /\ instr.op = "kArchTableSwitch"
  /\ LET input == instr.in0
         case_count == Len(instr.cases)
         cases == [index \in 1..case_count |-> GetLabel(instr.cases[index])]
         table == TableLabel(Len(gen.jump_tables) + 1)
     IN  /\ gen' = [gen EXCEPT !.jump_tables =
                       Append(@, [label |-> table, targets |-> cases])]
         /\ code' = TableSwitchBoundsCheck(input, case_count,
                                           GetLabel(instr.default))
                    \o <<Ins("larl", kScratchReg, "-", table),
                         Ins("ShiftLeftP_i", "r1", input, kPointerSizeLog2),
                         Ins("LoadP_rr", kScratchReg, kScratchReg, "r1"),
                         Ins("Jump", kScratchReg, "-", "-")>>
                    \o BlockStubs
  /\ phase' = "tables"
  /\ UNCHANGED <<instr, m, m0, trace>>

\* CodeGenerator::AssembleJumpTable(targets, target_count)
AssembleJumpTable(targets, target_count) ==
  [index \in 1..target_count |-> Ins("label_addr", targets[index], "-", "-")]

\* The jump tables are emitted after the instruction stream, each bound to
\* its label.
AssembleJumpTables ==
  /\ phase = "tables"
  /\ gen.emitted < Len(gen.jump_tables)
  /\ LET t == gen.jump_tables[gen.emitted + 1]
     IN  code' = code \o <<Ins("bind", t.label, "-", "-")>>
                      \o AssembleJumpTable(t.targets, Len(t.targets))
  /\ gen' = [gen EXCEPT !.emitted = @ + 1]
  /\ UNCHANGED <<instr, m, m0, trace, phase>>

FinishCode ==
  /\ phase = "tables"
  /\ gen.emitted = Len(gen.jump_tables)
  /\ phase' = "run"
  /\ UNCHANGED <<instr, gen, code, m, m0, trace>>

\* Index values: in range, just out of range, and with the sign bit of the
\* low half or of the register set.
IndexSamples == (0..MaxCases + 1) \cup {HalfMod \div 2, HalfMod, RegMod - 1}

InitSwitch ==
  /\ instr \in [op : {"kArchTableSwitch"}, in0 : AllocRegs, default : Blocks,
                cases : SeqsUpTo(Blocks, MaxCases)]
  /\ \E v \in IndexSamples :
       m = [R |-> [x \in AllocRegs \cup ScratchRegs |->
                     IF x = instr.in0 THEN v ELSE RegMod - 2],
            mem |-> <<>>, cc |-> 0, pc |-> 1]
  /\ m0 = m
  /\ gen = [jump_tables |-> <<>>, emitted |-> 0]
  /\ code = <<>>
  /\ trace = <<>>
  /\ phase = "lower"

NextSwitch ==
  AssembleArchTableSwitch \/ AssembleJumpTables \/ FinishCode \/ Execute
    \/ Finish

SpecSwitch == InitSwitch /\ [][NextSwitch]_vars

\* The basic block control has reached.
AtBlock(b) ==
  /\ m.pc \in 1..Len(code)
  /\ code[m.pc].op = "block"
  /\ code[m.pc].a = GetLabel(b)

\* The entries of the emitted jump table of this switch, in order.
EmittedTable ==
  LET t == LabelPos(code, TableLabel(1))
  IN  [j \in 1..(Len(code) - t) |-> code[t + j].a]

\* C4: a table switch with N cases sends every index in [0, N) to the label
\* stored at that index of its jump table and every index >= N, compared
\* unsigned, to the default label; the table holds exactly the N case labels
\* in case order.
C4_TableSwitch ==
  (phase = "done" /\ instr.op = "kArchTableSwitch") =>
     LET N == Len(instr.cases)
         index == m0.R[instr.in0]
     IN  /\ Len(gen.jump_tables) = 1
         /\ EmittedTable = [k \in 1..N |-> GetLabel(instr.cases[k])]
         /\ index < N =>
              /\ AtBlock(instr.cases[index + 1])
              /\ code[m.pc].a = EmittedTable[index + 1]
         /\ index >= N => AtBlock(instr.default)

\* The last case of a three-case switch whose default is another block was
\* taken through the table.
C4_Witness ==
  /\ phase = "done"
  /\ Len(instr.cases) = 3 /\ m0.R[instr.in0] = 2
  /\ instr.cases[3] # instr.default /\ instr.cases[3] # instr.cases[1]
  /\ AtBlock(instr.cases[3])
  /\ \E k \in 1..Len(trace) : trace[k].op = "Jump"

\* Double registers the register allocator may assign.
AllocDoubleRegs == {"d1", "d2", "d3"}
DoubleRegs == AllocDoubleRegs \cup {kScratchDoubleReg}

DoubleSamples == {<<0, 1>>, <<2, 1>>, <<-3, 1>>, <<1, 2>>, <<1, 0>>, quiet_NaN}

InitFloat ==
  /\ instr \in [op : FloatBinops, out : AllocDoubleRegs,
                in0 : AllocDoubleRegs, in1 : AllocDoubleRegs]
  /\ \E d \in [AllocDoubleRegs -> DoubleSamples] :
       m = [D |-> [r \in DoubleRegs |->
                     IF r = kScratchDoubleReg THEN <<0, 1>> ELSE d[r]],
            pc |-> 1]
  /\ m0 = m
  /\ gen = NoGen
  /\ code = <<>>
  /\ trace = <<>>
  /\ phase = "lower"

NextFloat == AssembleFloatBinop \/ Execute \/ Finish

SpecFloat == InitFloat /\ [][NextFloat]_vars

\* The operation of a floating-point binary opcode on values.
FloatOpOf(op, x, y) ==
  CASE op = "kS390_AddDouble" -> FAdd(x, y)
    [] op = "kS390_SubDouble" -> FSub(x, y)
    [] op = "kS390_MulDouble" -> FMul(x, y)
    [] op = "kS390_DivDouble" -> FDiv(x, y)

\* C1: for AddDouble, SubDouble, MulDouble and DivDouble and every aliasing
\* of output, input 0 and input 1, the output register ends up holding
\* input0 op input1 on the values the registers held before the instruction.
C1_FloatBinopPreClobber ==
  (phase = "done" /\ instr.op \in FloatBinops) =>
     m.D[instr.out] = FloatOpOf(instr.op, m0.D[instr.in0], m0.D[instr.in1])

\* A subtraction whose output aliases input 1 only, with operands whose
\* difference is not symmetric, has been executed.
C1_Witness ==
  /\ phase = "done"
  /\ instr.op = "kS390_SubDouble"
  /\ instr.out = instr.in1 /\ instr.out # instr.in0
  /\ m0.D[instr.in0] = <<2, 1>> /\ m0.D[instr.in1] = <<1, 2>>
  /\ m.D[instr.out] = <<3, 2>>

(***************************************************************************)
(* Loads and stores, unchecked and bounds-checked; out-of-line code.       *)
(***************************************************************************)
HasRegisterInput2(i) == i.reg2

\* An OutOfLineCode object: its kind, result register and two labels.  The
\* n-th object created by the generator owns the n-th pair of labels.
OutOfLineCode(kind, result, n) ==
  [kind |-> kind, result |-> result,
   entry |-> <<"ool_entry", n>>, exit |-> <<"ool_exit", n>>]

\* RecordWriteMode, in the order of its enumerators.
RecordWriteModes == <<"kValueIsMap", "kValueIsPointer", "kValueIsAny">>
ModeRank(mode) == CHOOSE k \in 1..3 : RecordWriteModes[k] = mode

\* An OutOfLineRecordWrite object.
OutOfLineRecordWrite(frame, object, offset, value, s0, s1, mode, n) ==
  [kind |-> "RecordWrite", frame |-> frame, object_ |-> object,
   offset_ |-> offset, value_ |-> value, scratch0_ |-> s0,
   scratch1_ |-> s1, mode_ |-> mode,
   entry |-> <<"ool_entry", n>>, exit |-> <<"ool_exit", n>>]

RecordWrite_NoSmiCheck(ool) ==
  (IF ModeRank(ool.mode_) > ModeRank("kValueIsMap")
   THEN <<Ins("CheckPageFlag", <<ool.value_, ool.scratch0_>>,
              <<kPointersToHereAreInterestingMask, "eq">>, ool.exit)>>
   ELSE <<>>)
    \o <<Ins("AddP", ool.scratch1_, ool.object_, ool.offset_),
         Ins("CallStub", "RecordWriteStub",
             <<ool.object_, ool.scratch0_, ool.scratch1_>>,
             <<"EMIT_REMEMBERED_SET",
               IF ool.frame.DidAllocateDoubleRegisters THEN "kSaveFPRegs"
               ELSE "kDontSaveFPRegs">>)>>

\* OutOfLineRecordWrite::Generate
RecordWrite(ool) ==
  (IF ModeRank(ool.mode_) > ModeRank("kValueIsPointer")
   THEN <<Ins("JumpIfSmi", ool.value_, "-", ool.exit)>>
   ELSE <<>>)
    \o (IF ModeRank(ool.mode_) > ModeRank("kValueIsMap")
        THEN <<Ins("CheckPageFlag", <<ool.value_, ool.scratch0_>>,
                   <<kPointersToHereAreInterestingMask, "eq">>, ool.exit)>>
        ELSE <<>>)
    \o <<Ins("AddP", ool.scratch1_, ool.object_, ool.offset_),
         Ins("CallStub", "RecordWriteStub",
             <<ool.object_, ool.scratch0_, ool.scratch1_>>,
             <<"EMIT_REMEMBERED_SET",
               IF ool.frame.DidAllocateDoubleRegisters THEN "kSaveFPRegs"
               ELSE "kDontSaveFPRegs">>)>>

\* OutOfLineLoadNAN32::Generate, OutOfLineLoadNAN64::Generate,
\* OutOfLineLoadZero::Generate
Generate(ool) ==
  CASE ool.kind = "LoadNAN32" ->
         <<Ins("LoadDoubleLiteral", ool.result, quiet_NaN, kScratchReg)>>
    [] ool.kind = "LoadNAN64" ->
         <<Ins("LoadDoubleLiteral", ool.result, quiet_NaN, kScratchReg)>>
    [] ool.kind = "LoadZero" -> <<Ins("LoadImmP", ool.result, "-", 0)>>
    [] ool.kind = "RecordWrite" -> RecordWrite(ool)

ASSEMBLE_LOAD_FLOAT(asm_instr, i) == <<Ins(asm_instr, i.out, i.in0, i.in1)>>
ASSEMBLE_LOAD_INTEGER(asm_instr, i) == <<Ins(asm_instr, i.out, i.in0, i.in1)>>
ASSEMBLE_STORE_FLOAT32(i) ==
  <<Ins("StoreDoubleAsFloat32", <<i.in2, kScratchDoubleReg>>, i.in0, i.in1)>>
ASSEMBLE_STORE_DOUBLE(i) == <<Ins("StoreF", i.in2, i.in0, i.in1)>>
ASSEMBLE_STORE_INTEGER(asm_instr, i) == <<Ins(asm_instr, i.in2, i.in0, i.in1)>>

\* The bounds test shared by the checked macros: offset = operand.rb();
\* lgfr(offset, offset); CmpLogical32(offset, length).
CheckedCompare(i) ==
  LET offset == i.in1
  IN  <<Ins("lgfr", offset, offset, "-"),
        IF HasRegisterInput2(i)
        THEN Ins("CmpLogical32", offset, i.in2, "-")
        ELSE Ins("CmpLogical32_i", offset, "-", i.imm2)>>

ASSEMBLE_CHECKED_LOAD_FLOAT(asm_instr, i, ool) ==
  CheckedCompare(i)
    \o <<Ins("b", "ge", "-", ool.entry),
         Ins(asm_instr, i.out, i.in0, i.in1),
         Ins("bind", ool.exit, "-", "-")>>

CheckedLoadInteger_bgt(asm_instr, i, ool) ==
  CheckedCompare(i)
    \o <<Ins("b", "gt", "-", ool.entry),
         Ins(asm_instr, i.out, i.in0, i.in1),
         Ins("bind", ool.exit, "-", "-")>>

ASSEMBLE_CHECKED_LOAD_INTEGER(asm_instr, i, ool) ==
  CheckedCompare(i)
    \o <<Ins("b", "ge", "-", ool.entry),
         Ins(asm_instr, i.out, i.in0, i.in1),
         Ins("bind", ool.exit, "-", "-")>>

\* The label `done` of a checked store.
DoneLabel == <<"done", 1>>

ASSEMBLE_CHECKED_STORE_FLOAT32(i) ==
  CheckedCompare(i)
    \o <<Ins("b", "ge", "-", DoneLabel),
         Ins("StoreDoubleAsFloat32", <<i.in3, kScratchDoubleReg>>, i.in0,
             i.in1),
         Ins("bind", DoneLabel, "-", "-")>>

ASSEMBLE_CHECKED_STORE_DOUBLE(i) ==
  CheckedCompare(i)
    \o <<Ins("b", "ge", "-", DoneLabel),
         Ins("StoreF", i.in3, i.in0, i.in1),
         Ins("bind", DoneLabel, "-", "-")>>

CheckedStoreInteger_bgt(asm_instr, i) ==
  CheckedCompare(i)
    \o <<Ins("b", "gt", "-", DoneLabel),
         Ins(asm_instr, i.in3, i.in0, i.in1),
         Ins("bind", DoneLabel, "-", "-")>>

ASSEMBLE_CHECKED_STORE_INTEGER(asm_instr, i) ==
  CheckedCompare(i)
    \o <<Ins("b", "ge", "-", DoneLabel),
         Ins(asm_instr, i.in3, i.in0, i.in1),
         Ins("bind", DoneLabel, "-", "-")>>

CheckedIntLoadOps == {"kCheckedLoadInt8", "kCheckedLoadUint8",
                      "kCheckedLoadInt16", "kCheckedLoadUint16",
                      "kCheckedLoadWord32", "kCheckedLoadWord64"}
CheckedFloatLoadOps == {"kCheckedLoadFloat32", "kCheckedLoadFloat64"}
CheckedLoadOps == CheckedIntLoadOps \cup CheckedFloatLoadOps
CheckedIntStoreOps == {"kCheckedStoreWord8", "kCheckedStoreWord16",
                       "kCheckedStoreWord32", "kCheckedStoreWord64"}
CheckedFloatStoreOps == {"kCheckedStoreFloat32", "kCheckedStoreFloat64"}
CheckedStoreOps == CheckedIntStoreOps \cup CheckedFloatStoreOps
CheckedOps == CheckedLoadOps \cup CheckedStoreOps

\* The out-of-line object a checked load creates.
CheckedLoadOol(i, n) ==
  CASE i.op \in CheckedIntLoadOps -> OutOfLineCode("LoadZero", i.out, n)
    [] i.op = "kCheckedLoadFloat32" -> OutOfLineCode("LoadNAN32", i.out, n)
    [] i.op = "kCheckedLoadFloat64" -> OutOfLineCode("LoadNAN64", i.out, n)

\* The cases kCheckedLoad* of AssembleArchInstruction.
kCheckedLoad(i, ool) ==
  CASE i.op = "kCheckedLoadInt8" ->
         ASSEMBLE_CHECKED_LOAD_INTEGER("LoadlB", i, ool)
           \o <<Ins("lgbr", i.out, i.out, "-")>>
    [] i.op = "kCheckedLoadUint8" ->
         ASSEMBLE_CHECKED_LOAD_INTEGER("LoadlB", i, ool)
    [] i.op = "kCheckedLoadInt16" ->
         ASSEMBLE_CHECKED_LOAD_INTEGER("LoadHalfWordP", i, ool)
    [] i.op = "kCheckedLoadUint16" ->
         ASSEMBLE_CHECKED_LOAD_INTEGER("LoadLogicalHalfWordP", i, ool)
    [] i.op = "kCheckedLoadWord32" ->
         ASSEMBLE_CHECKED_LOAD_INTEGER("LoadW", i, ool)
    [] i.op = "kCheckedLoadWord64" ->
         ASSEMBLE_CHECKED_LOAD_INTEGER("LoadP", i, ool)
    [] i.op = "kCheckedLoadFloat32" ->
         ASSEMBLE_CHECKED_LOAD_FLOAT("LoadShortConvertToDoubleF", i, ool)
    [] i.op = "kCheckedLoadFloat64" ->
         ASSEMBLE_CHECKED_LOAD_FLOAT("LoadF", i, ool)

\* The cases kCheckedStore* of AssembleArchInstruction.
kCheckedStore(i) ==
  CASE i.op = "kCheckedStoreWord8" ->
         ASSEMBLE_CHECKED_STORE_INTEGER("StoreByte", i)
    [] i.op = "kCheckedStoreWord16" ->
         ASSEMBLE_CHECKED_STORE_INTEGER("StoreHalfWord", i)
    [] i.op = "kCheckedStoreWord32" ->
         ASSEMBLE_CHECKED_STORE_INTEGER("StoreW", i)
    [] i.op = "kCheckedStoreWord64" ->
         ASSEMBLE_CHECKED_STORE_INTEGER("StoreP", i)
    [] i.op = "kCheckedStoreFloat32" -> ASSEMBLE_CHECKED_STORE_FLOAT32(i)
    [] i.op = "kCheckedStoreFloat64" -> ASSEMBLE_CHECKED_STORE_DOUBLE(i)

UncheckedLoadOps == {"kS390_LoadWordS8", "kS390_LoadWordU8",
                     "kS390_LoadWordS16", "kS390_LoadWordU16",
                     "kS390_LoadWordS32", "kS390_LoadWord64",
                     "kS390_LoadFloat32", "kS390_LoadDouble"}
UncheckedStoreOps == {"kS390_StoreWord8", "kS390_StoreWord16",
                      "kS390_StoreWord32", "kS390_StoreWord64",
                      "kS390_StoreFloat32", "kS390_StoreDouble"}

\* The cases kS390_Load* and kS390_Store* of AssembleArchInstruction.
kS390_Load(i) ==
  CASE i.op = "kS390_LoadWordS8" ->
         ASSEMBLE_LOAD_INTEGER("LoadlB", i) \o <<Ins("lgbr", i.out, i.out, "-")>>
    [] i.op = "kS390_LoadWordU8" -> ASSEMBLE_LOAD_INTEGER("LoadlB", i)
    [] i.op = "kS390_LoadWordU16" ->
         ASSEMBLE_LOAD_INTEGER("LoadLogicalHalfWordP", i)
    [] i.op = "kS390_LoadWordS16" -> ASSEMBLE_LOAD_INTEGER("LoadHalfWordP", i)
    [] i.op = "kS390_LoadWordS32" -> ASSEMBLE_LOAD_INTEGER("LoadW", i)
    [] i.op = "kS390_LoadWord64" -> ASSEMBLE_LOAD_INTEGER("lg", i)
    [] i.op = "kS390_LoadFloat32" ->
         ASSEMBLE_LOAD_FLOAT("LoadShortConvertToDoubleF", i)
    [] i.op = "kS390_LoadDouble" -> ASSEMBLE_LOAD_FLOAT("LoadF", i)

kS390_Store(i) ==
  CASE i.op = "kS390_StoreWord8" -> ASSEMBLE_STORE_INTEGER("StoreByte", i)
    [] i.op = "kS390_StoreWord16" -> ASSEMBLE_STORE_INTEGER("StoreHalfWord", i)
    [] i.op = "kS390_StoreWord32" -> ASSEMBLE_STORE_INTEGER("StoreW", i)
    [] i.op = "kS390_StoreWord64" -> ASSEMBLE_STORE_INTEGER("StoreP", i)
    [] i.op = "kS390_StoreFloat32" -> ASSEMBLE_STORE_FLOAT32(i)
    [] i.op = "kS390_StoreDouble" -> ASSEMBLE_STORE_DOUBLE(i)

\* The unchecked instruction of the same width on the same base and offset
\* registers; the value of a store is input 2 there and input 3 here.
UncheckedOp(op) ==
  CASE op = "kCheckedLoadInt8" -> "kS390_LoadWordS8"
    [] op = "kCheckedLoadUint8" -> "kS390_LoadWordU8"
    [] op = "kCheckedLoadInt16" -> "kS390_LoadWordS16"
    [] op = "kCheckedLoadUint16" -> "kS390_LoadWordU16"
    [] op = "kCheckedLoadWord32" -> "kS390_LoadWordS32"
    [] op = "kCheckedLoadWord64" -> "kS390_LoadWord64"
    [] op = "kCheckedLoadFloat32" -> "kS390_LoadFloat32"
    [] op = "kCheckedLoadFloat64" -> "kS390_LoadDouble"
    [] op = "kCheckedStoreWord8" -> "kS390_StoreWord8"
    [] op = "kCheckedStoreWord16" -> "kS390_StoreWord16"
    [] op = "kCheckedStoreWord32" -> "kS390_StoreWord32"
    [] op = "kCheckedStoreWord64" -> "kS390_StoreWord64"
    [] op = "kCheckedStoreFloat32" -> "kS390_StoreFloat32"
    [] op = "kCheckedStoreFloat64" -> "kS390_StoreDouble"

UncheckedOf(i) ==
  [i EXCEPT !.op = UncheckedOp(i.op),
            !.in2 = IF i.op \in CheckedStoreOps THEN i.in3 ELSE "-",
            !.imm2 = 0, !.reg2 = TRUE, !.in3 = "-"]

AssembleCheckedLoad ==
  /\ phase = "lower"
  /\ instr.op \in CheckedLoadOps
  /\ LET ool == CheckedLoadOol(instr, Len(gen.ools) + 1)
     IN  /\ gen' = [gen EXCEPT !.ools = <<ool>> \o @]
         /\ code' = kCheckedLoad(instr, ool) \o Next1
  /\ phase' = "ool"
  /\ UNCHANGED <<instr, m, m0, trace>>

AssembleCheckedStore ==
  /\ phase = "lower"
  /\ instr.op \in CheckedStoreOps
  /\ code' = kCheckedStore(instr) \o Next1
  /\ phase' = "ool"
  /\ UNCHANGED <<instr, gen, m, m0, trace>>

AssembleLoad ==
  /\ phase = "lower"
  /\ instr.op \in UncheckedLoadOps
  /\ code' = kS390_Load(instr) \o Next1
  /\ phase' = "ool"
  /\ UNCHANGED <<instr, gen, m, m0, trace>>

AssembleStore ==
  /\ phase = "lower"
  /\ instr.op \in UncheckedStoreOps
  /\ code' = kS390_Store(instr) \o Next1
  /\ phase' = "ool"
  /\ UNCHANGED <<instr, gen, m, m0, trace>>

\* A label is bound in the emitted code.
IsBound(c, l) == \E k \in 1..Len(c) : c[k].op = "bind" /\ c[k].a = l

\* The out-of-line code is emitted after the instruction stream: each
\* object's entry label, its body, and a jump to its exit label if bound.
AssembleOutOfLineCode ==
  /\ phase = "ool"
  /\ gen.emitted < Len(gen.ools)
  /\ LET ool == gen.ools[gen.emitted + 1]
     IN  code' = code \o <<Ins("bind", ool.entry, "-", "-")>> \o Generate(ool)
                      \o (IF IsBound(code, ool.exit)
                          THEN <<Ins("b", "al", "-", ool.exit)>> ELSE <<>>)
  /\ gen' = [gen EXCEPT !.emitted = @ + 1]
  /\ UNCHANGED <<instr, m, m0, trace, phase>>

FinishOutOfLine ==
  /\ phase = "ool"
  /\ gen.emitted = Len(gen.ools)
  /\ phase' = "run"
  /\ UNCHANGED <<instr, gen, code, m, m0, trace>>

\* Sample values of the base, of the offset register (small, bit 31 set,
\* upper half not clear) and of the length (register or immediate).
BaseSamples == {2 * kPointerSize, RegMod - kPointerSize}
OffsetSamples == {0, 1, HalfMod \div 2, HalfMod - 1, HalfMod + 1,
                  RegMod - HalfMod + 2}
BoundSamples == {0, 1, 2, HalfMod \div 2 + 1, HalfMod - 1}
BoundRegSamples == BoundSamples \cup {HalfMod + 2}

CheckedOperands(ops, outs, values) ==
  [op : ops, out : outs, in0 : {"r2"}, in1 : {"r3"}, in2 : {"r4"},
   imm2 : {0}, reg2 : {TRUE}, in3 : values]
    \cup [op : ops, out : outs, in0 : {"r2"}, in1 : {"r3"}, in2 : {"-"},
          imm2 : BoundSamples, reg2 : {FALSE}, in3 : values]

CheckedInstrs ==
  CheckedOperands(CheckedIntLoadOps, AllocRegs, {"-"})
    \cup CheckedOperands(CheckedFloatLoadOps, {"d1"}, {"-"})
    \cup CheckedOperands(CheckedIntStoreOps, {"-"}, AllocRegs)
    \cup CheckedOperands(CheckedFloatStoreOps, {"-"}, {"d1"})

InitChecked ==
  /\ instr \in CheckedInstrs \cup {UncheckedOf(i) : i \in CheckedInstrs}
  /\ \E base \in BaseSamples, offset \in OffsetSamples,
        length \in BoundRegSamples, x \in {<<1, 2>>, <<-3, 1>>} :
       /\ instr.reg2 \/ length = 0
       /\ instr.op \in CheckedOps \/ length = 0
       /\ m = [R |-> [r \in AllocRegs \cup ScratchRegs |->
                        CASE r = "r2" -> base
                          [] r = "r3" -> offset
                          [] r = "r4" -> length
                          [] OTHER -> RegMod - 2],
               D |-> [d \in DoubleRegs |-> IF d = "d1" THEN x ELSE <<0, 1>>],
               mem |-> <<>>, acc |-> <<>>, cc |-> 0, pc |-> 1]
  /\ m0 = m
  /\ gen = [ools |-> <<>>, emitted |-> 0]
  /\ code = <<>>
  /\ trace = <<>>
  /\ phase = "lower"

NextChecked ==
  \/ AssembleCheckedLoad \/ AssembleCheckedStore \/ AssembleLoad
  \/ AssembleStore \/ AssembleOutOfLineCode \/ FinishOutOfLine
  \/ Execute \/ Finish

SpecChecked == InitChecked /\ [][NextChecked]_vars

\* The 32-bit offset and length bound of a checked instruction on entry.
Offset32 == Lo(m0.R[instr.in1])
Bound32 ==
  IF HasRegisterInput2(instr) THEN Lo(m0.R[instr.in2])
  ELSE instr.imm2 % HalfMod

Executed(ops) == \E k \in 1..Len(trace) : trace[k].op \in ops

\* Control went from the out-of-line code to the exit label, which is bound
\* right after the main-path load.
ResumedAtExit(ool) ==
  /\ \E k \in 1..Len(code) - 1 :
       /\ code[k].op \in LoadOps
       /\ code[k + 1].op = "bind" /\ code[k + 1].a = ool.exit
  /\ \E j \in 1..Len(trace) - 1 :
       /\ trace[j].op = "b" /\ trace[j].a = "al" /\ trace[j].c = ool.exit
       /\ trace[j + 1].op = "bind" /\ trace[j + 1].a = ool.exit

\* C5: a checked load at an offset >= the length bound executes no memory
\* load, leaves the sentinel (zero, or quiet NaN for the float loads) in the
\* output register, and resumes at the exit label bound right after the
\* main-path load.
C5_CheckedLoadOutOfBounds ==
  (phase = "done" /\ instr.op \in CheckedLoadOps /\ Offset32 >= Bound32) =>
     /\ ~Executed(LoadOps)
     /\ m.acc = <<>>
     /\ IF instr.op \in CheckedFloatLoadOps
        THEN m.D[instr.out] = quiet_NaN
        ELSE m.R[instr.out] = 0
     /\ Executed({"LoadImmP", "LoadDoubleLiteral"})
     /\ ResumedAtExit(gen.ools[1])

\* A signed byte load at the offset equal to the bound took the slow path
\* and zeroed the register that held the base.
C5_Witness ==
  /\ phase = "done"
  /\ instr.op = "kCheckedLoadInt8" /\ instr.out = "r2"
  /\ Offset32 = Bound32 /\ Bound32 > 0
  /\ m0.R["r2"] # 0 /\ m.R["r2"] = 0
  /\ Executed({"LoadImmP"}) /\ Executed({"lgbr"})

\* C6: a checked store at an offset >= the length bound, the bound itself
\* included, skips the store instruction and leaves memory unchanged.
C6_CheckedStoreOutOfBounds ==
  (phase = "done" /\ instr.op \in CheckedStoreOps /\ Offset32 >= Bound32) =>
     /\ ~Executed(StoreOps)
     /\ m.acc = <<>>
     /\ m.mem = m0.mem

\* A 32-bit store at the offset equal to the bound branched over the store.
C6_Witness ==
  /\ phase = "done"
  /\ instr.op = "kCheckedStoreWord32"
  /\ Offset32 = Bound32 /\ Bound32 > 0
  /\ Executed({"b"}) /\ ~Executed(StoreOps)
  /\ m.mem = m0.mem

\* The state in which straight-line code c ends when started in state s.
RECURSIVE RunCode(_, _)
RunCode(c, s) ==
  IF s.pc \notin 1..Len(c) THEN s ELSE RunCode(c, Exec(s, c[s.pc]))

\* The code of an unchecked load or store.
UncheckedCode(i) ==
  IF i.op \in UncheckedLoadOps THEN kS390_Load(i) ELSE kS390_Store(i)

\* C7: at an offset below the bound a checked load or store accesses the
\* same address and leaves the same output and memory as the unchecked
\* instruction of the same width on the same base and offset registers, for
\* every content of the offset register.
C7_CheckedEqualsUnchecked ==
  (phase = "done" /\ instr.op \in CheckedOps /\ Offset32 < Bound32) =>
     LET u == RunCode(UncheckedCode(UncheckedOf(instr)), m0)
     IN  /\ m.acc = u.acc
         /\ m.mem = u.mem
         /\ instr.op \in CheckedIntLoadOps => m.R[instr.out] = u.R[instr.out]
         /\ instr.op \in CheckedFloatLoadOps => m.D[instr.out] = u.D[instr.out]

(***************************************************************************)
(* Activation records: AssemblePrologue and AssembleReturn.                *)
(***************************************************************************)
\* Largest spill-slot count and stack-parameter count of a function.
MaxSpillSlots == 2
MaxStackParams == 2

\* The callee-saved registers a calling convention may name.
CalleeSaved == {RegOrder[k] : k \in 1..Len(RegOrder)}
CalleeSavedDoubles == {DoubleRegOrder[k] : k \in 1..Len(DoubleRegOrder)}

\* linkage()->GetIncomingDescriptor() and frame(): instr describes the
\* function being compiled.
IsCFunctionCall(descriptor) == descriptor.kind = "CFunction"
IsJSFunctionCall(descriptor) == descriptor.kind = "JSFunction"
needs_frame(frame) == frame.needs_frame

\* stack_shrink_slots of AssemblePrologue: the spill slots plus, with
\* callee-saved doubles, what AlignSavedCalleeRegisterSlots returns.
StackShrinkSlots_NoOsr(descriptor, frame, info) ==
  frame.spill_slot_count
    + (IF descriptor.double_saves # {} THEN frame.align_slots ELSE 0)

\* stack_shrink_slots of AssemblePrologue: the spill slots, less the slots
\* of the unoptimized frame under OSR, plus the alignment padding of the
\* saved double registers.
StackShrinkSlots(descriptor, frame, info) ==
  frame.spill_slot_count
    - (IF info.is_osr THEN info.UnoptimizedFrameSlots ELSE 0)
    + (IF descriptor.double_saves # {} THEN frame.align_slots ELSE 0)

\* JavaScriptFrameConstants::kFunctionOffset
kFunctionOffset == 0 - 2 * kPointerSize

\* The part of the prologue that builds the frame.
ConstructFrameCode(descriptor, frame) ==
  IF IsCFunctionCall(descriptor)
  THEN <<Ins("Push2", "r14", "fp", "-"), Ins("lgr", "fp", "sp", "-")>>
  ELSE IF IsJSFunctionCall(descriptor) THEN <<Ins("Prologue", "ip", "-", "-")>>
  ELSE IF needs_frame(frame) THEN <<Ins("StubPrologue", "ip", "-", "-")>>
  ELSE <<>>

\* if (info()->is_osr()) { __ Abort(...); osr_pc_offset_ = __ pc_offset();
\*                         __ LoadP(r3, MemOperand(fp, kFunctionOffset)); }
OsrEntryCode(info) ==
  IF info.is_osr
  THEN <<Ins("Abort", "kShouldNotDirectlyEnterOsrFunction", "-", "-"),
         Ins("LoadP_d", "r3", "fp", kFunctionOffset)>>
  ELSE <<>>

\* The label all returns of a framed function share, and the label of the
\* n-th return site.
return_label == <<"return", 0>>
ReturnSite(n) == <<"ret_site", n>>

Prologue_GeneralFirst(descriptor, frame, info) ==
  ConstructFrameCode(descriptor, frame)
  \o OsrEntryCode(info)
  \o (IF StackShrinkSlots(descriptor, frame, info) > 0
      THEN <<Ins("lay", "sp", "sp",
                 -StackShrinkSlots(descriptor, frame, info) * kPointerSize)>>
      ELSE <<>>)
  \o (IF descriptor.saves # {}
      THEN <<Ins("MultiPush", descriptor.saves, "-", "-")>> ELSE <<>>)
  \o (IF descriptor.double_saves # {}
      THEN <<Ins("MultiPushDoubles", descriptor.double_saves, "-", "-")>>
      ELSE <<>>)

\* The code AssemblePrologue emits.
PrologueCode(descriptor, frame, info) ==
  ConstructFrameCode(descriptor, frame)
  \o OsrEntryCode(info)
  \o (IF StackShrinkSlots(descriptor, frame, info) > 0
      THEN <<Ins("lay", "sp", "sp",
                 -StackShrinkSlots(descriptor, frame, info) * kPointerSize)>>
      ELSE <<>>)
  \o (IF descriptor.double_saves # {}
      THEN <<Ins("MultiPushDoubles", descriptor.double_saves, "-", "-")>>
      ELSE <<>>)
  \o (IF descriptor.saves # {}
      THEN <<Ins("MultiPush", descriptor.saves, "-", "-")>> ELSE <<>>)

\* CodeGenerator::AssemblePrologue: emits the prologue and records the
\* slots of the saved registers in the frame.
AssemblePrologue ==
  /\ phase = "lower"
  /\ instr.op = "function"
  /\ code' = PrologueCode(instr, gen.frame, gen.info)
  /\ gen' = [gen EXCEPT
       !.osr_pc_offset_ =
          IF gen.info.is_osr
          THEN Len(ConstructFrameCode(instr, gen.frame)) + 1 ELSE @,
       !.frame.frame_slot_count =
          (IF IsCFunctionCall(instr) \/ IsJSFunctionCall(instr)
              \/ needs_frame(gen.frame) THEN @ ELSE 0)
            + Cardinality(instr.double_saves) + Cardinality(instr.saves),
       !.frame.callee_saved_slot_count =
          @ + Cardinality(instr.double_saves) + Cardinality(instr.saves)]
  /\ phase' = "body"
  /\ UNCHANGED <<instr, m, m0, trace>>

\* The body of the function, and the jump to the return site it leaves by.
AssembleBody ==
  /\ phase = "body"
  /\ code' = code
       \o <<Ins("body",
                [saves |-> instr.saves, double_saves |-> instr.double_saves,
                 link |-> needs_frame(gen.frame),
                 first_slot |-> gen.frame.callee_saved_slot_count + 1,
                 slots |-> gen.frame.spill_slot_count], "-", "-"),
            Ins("b", "al", "-", ReturnSite(instr.site))>>
  /\ phase' = "return"
  /\ UNCHANGED <<instr, gen, m, m0, trace>>

Return_DoublesFirst(descriptor, frame, bound) ==
  LET pop_count == descriptor.pop_count
  IN  (IF descriptor.double_saves # {}
       THEN <<Ins("MultiPopDoubles", descriptor.double_saves, "-", "-")>>
       ELSE <<>>)
      \o (IF descriptor.saves # {}
          THEN <<Ins("MultiPop", descriptor.saves, "-", "-")>> ELSE <<>>)
      \o (IF IsCFunctionCall(descriptor)
          THEN <<Ins("LeaveFrame", "MANUAL", "-", pop_count * kPointerSize),
                 Ins("Ret", "-", "-", "-")>>
          ELSE IF needs_frame(frame)
          THEN (IF bound THEN <<Ins("b", "al", "-", return_label)>>
                ELSE <<Ins("bind", return_label, "-", "-"),
                       Ins("LeaveFrame", "MANUAL", "-",
                           pop_count * kPointerSize),
                       Ins("Ret", "-", "-", "-")>>)
          ELSE <<Ins("Drop", "-", "-", pop_count), Ins("Ret", "-", "-", "-")>>)

Return_EverySite(descriptor, frame, bound) ==
  LET pop_count == descriptor.pop_count
  IN  (IF descriptor.saves # {}
       THEN <<Ins("MultiPop", descriptor.saves, "-", "-")>> ELSE <<>>)
      \o (IF descriptor.double_saves # {}
          THEN <<Ins("MultiPopDoubles", descriptor.double_saves, "-", "-")>>
          ELSE <<>>)
      \o (IF IsCFunctionCall(descriptor) \/ needs_frame(frame)
          THEN <<Ins("LeaveFrame", "MANUAL", "-", pop_count * kPointerSize),
                 Ins("Ret", "-", "-", "-")>>
          ELSE <<Ins("Drop", "-", "-", pop_count), Ins("Ret", "-", "-", "-")>>)

\* The code AssembleReturn emits; bound is return_label_.is_bound().
ReturnCode(descriptor, frame, bound) ==
  LET pop_count == descriptor.pop_count
  IN  (IF descriptor.saves # {}
       THEN <<Ins("MultiPop", descriptor.saves, "-", "-")>> ELSE <<>>)
      \o (IF descriptor.double_saves # {}
          THEN <<Ins("MultiPopDoubles", descriptor.double_saves, "-", "-")>>
          ELSE <<>>)
      \o (IF IsCFunctionCall(descriptor)
          THEN <<Ins("LeaveFrame", "MANUAL", "-", pop_count * kPointerSize),
                 Ins("Ret", "-", "-", "-")>>
          ELSE IF needs_frame(frame)
          THEN (IF bound THEN <<Ins("b", "al", "-", return_label)>>
                ELSE <<Ins("bind", return_label, "-", "-"),
                       Ins("LeaveFrame", "MANUAL", "-",
                           pop_count * kPointerSize),
                       Ins("Ret", "-", "-", "-")>>)
          ELSE <<Ins("Drop", "-", "-", pop_count), Ins("Ret", "-", "-", "-")>>)

\* CodeGenerator::AssembleReturn, once per return site of the function.
AssembleReturn ==
  /\ phase = "return"
  /\ gen.returns < instr.returns
  /\ code' = code \o <<Ins("bind", ReturnSite(gen.returns + 1), "-", "-")>>
                  \o ReturnCode(instr, gen.frame, IsBound(code, return_label))
  /\ gen' = [gen EXCEPT !.returns = @ + 1]
  /\ UNCHANGED <<instr, m, m0, trace, phase>>

FinishFunction ==
  /\ phase = "return"
  /\ gen.returns = instr.returns
  /\ phase' = "run"
  /\ UNCHANGED <<instr, gen, code, m, m0, trace>>

\* Return sites of a function.
MaxReturns == 3

FrameKinds == {"CFunction", "JSFunction", "Stub", "Elided"}

InitFrame ==
  /\ instr \in [op : {"function"}, kind : FrameKinds,
                saves : SUBSET CalleeSaved,
                double_saves : SUBSET CalleeSavedDoubles,
                pop_count : 0..MaxStackParams,
                returns : 1..MaxReturns, site : 1..MaxReturns]
  /\ instr.site <= instr.returns
  /\ \E spill \in 0..MaxSpillSlots, align \in 0..1 :
       gen = [frame |-> [needs_frame |-> instr.kind # "Elided",
                         spill_slot_count |-> spill,
                         align_slots |-> align,
                         frame_slot_count |-> spill,
                         callee_saved_slot_count |-> 0],
              info |-> [is_osr |-> FALSE, UnoptimizedFrameSlots |-> 0],
              osr_pc_offset_ |-> 0 - 1,
              returns |-> 0]
  /\ m = [R |-> [r \in CalleeSaved \cup {"sp", "fp", "r14", "cp", "r3", "ip",
                                          "r1"} |->
                   CASE r = "sp" -> RegMod - 5 * kPointerSize
                     [] r = "fp" -> RegMod - kPointerSize
                     [] r = "r14" -> 3
                     [] r = "cp" -> 5
                     [] r = "r3" -> 7
                     [] r = "r6" -> 11
                     [] r = "r7" -> 12
                     [] r = "r8" -> 13
                     [] OTHER -> RegMod - 2],
          D |-> [d \in CalleeSavedDoubles |->
                   IF d = "d8" THEN <<1, 2>> ELSE <<-3, 1>>],
          mem |-> <<>>, acc |-> <<>>, cc |-> 0, pc |-> 1]
  /\ m0 = m
  /\ code = <<>>
  /\ trace = <<>>
  /\ phase = "lower"

NextFrame ==
  \/ AssemblePrologue \/ AssembleBody \/ AssembleReturn \/ FinishFunction
  \/ Execute \/ Finish

SpecFrame == InitFrame /\ [][NextFrame]_vars

\* The stack pointer, the frame pointer and the callee-saved registers
\* against their values at function entry.
SpRestored ==
  m.R["sp"] = (m0.R["sp"] + instr.pop_count * kPointerSize) % RegMod
FpRestored == m.R["fp"] = m0.R["fp"]
CalleeSavedRestored ==
  /\ \A r \in CalleeSaved : m.R[r] = m0.R[r]
  /\ \A d \in CalleeSavedDoubles : m.D[d] = m0.D[d]

Rank(i) ==
  CASE i.op \in {"Push2", "lgr", "Prologue", "StubPrologue"} -> 0
    [] i.op = "lay" -> 1
    [] i.op = "MultiPushDoubles" -> 2
    [] i.op = "MultiPush" -> 3
    [] i.op = "body" -> 4
    [] i.op = "MultiPop" -> 5
    [] i.op = "MultiPopDoubles" -> 6
    [] i.op \in {"LeaveFrame", "Drop"} -> 7
    [] i.op = "Ret" -> 8
    [] OTHER -> -1

ExecutedWith(op, regs) ==
  \E k \in 1..Len(trace) : trace[k].op = op /\ trace[k].a = regs

\* C9: the prologue allocates the spill slots, then pushes the callee-saved
\* doubles, then the callee-saved general registers; the return pops the
\* general registers, then the doubles, and only then tears down the frame.
C9_RestoreReversesSave ==
  phase = "done" =>
     /\ \A j, k \in 1..Len(trace) :
          (j < k /\ Rank(trace[j]) >= 0 /\ Rank(trace[k]) >= 0) =>
             \/ Rank(trace[j]) < Rank(trace[k])
             \/ Rank(trace[j]) = 0 /\ Rank(trace[k]) = 0
     /\ gen.frame.spill_slot_count > 0 => Executed({"lay"})
     /\ instr.double_saves # {} =>
          /\ ExecutedWith("MultiPushDoubles", instr.double_saves)
          /\ ExecutedWith("MultiPopDoubles", instr.double_saves)
     /\ instr.saves # {} =>
          /\ ExecutedWith("MultiPush", instr.saves)
          /\ ExecutedWith("MultiPop", instr.saves)
     /\ Executed({"LeaveFrame", "Drop"})
     /\ Executed({"Ret"})

\* A stub frame with spill slots and both kinds of callee-saved registers
\* was built and torn down through the second return site.
C9_Witness ==
  /\ phase = "done"
  /\ instr.kind = "Stub" /\ instr.site = 2
  /\ instr.saves = CalleeSaved /\ instr.double_saves = CalleeSavedDoubles
  /\ gen.frame.spill_slot_count > 0
  /\ Executed({"lay"}) /\ Executed({"MultiPushDoubles"})
  /\ Executed({"MultiPush"}) /\ Executed({"MultiPop"})
  /\ Executed({"MultiPopDoubles"}) /\ Executed({"LeaveFrame"})

(***************************************************************************)
(* Flags: conditions, branches and boolean materialization; 32-bit add     *)
(* and subtract with overflow.                                             *)
(***************************************************************************)
FlagsConditionToCondition_lt(condition, op) ==
  CASE condition = "kOverflow" -> "lt"
    [] condition = "kNotOverflow" -> "ge"
    [] OTHER -> "kNoCondition"

\* FlagsConditionToCondition(condition, op), 64-bit build.
FlagsConditionToCondition(condition, op) ==
  CASE condition = "kEqual" -> "eq"
    [] condition = "kNotEqual" -> "ne"
    [] condition \in {"kSignedLessThan", "kUnsignedLessThan"} -> "lt"
    [] condition \in {"kSignedGreaterThanOrEqual",
                      "kUnsignedGreaterThanOrEqual"} -> "ge"
    [] condition \in {"kSignedLessThanOrEqual",
                      "kUnsignedLessThanOrEqual"} -> "le"
    [] condition \in {"kSignedGreaterThan", "kUnsignedGreaterThan"} -> "gt"
    [] condition = "kOverflow" ->
         (CASE op \in {"kS390_Add", "kS390_Sub"} -> "lt"
            [] op \in {"kS390_AddWithOverflow32", "kS390_SubWithOverflow32"}
                 -> "ne"
            [] OTHER -> "kNoCondition")
    [] condition = "kNotOverflow" ->
         (CASE op \in {"kS390_Add", "kS390_Sub"} -> "ge"
            [] op \in {"kS390_AddWithOverflow32", "kS390_SubWithOverflow32"}
                 -> "eq"
            [] OTHER -> "kNoCondition")
    [] OTHER -> "kNoCondition"

NegateCondition(cond) ==
  CASE cond = "eq" -> "ne"
    [] cond = "ne" -> "eq"
    [] cond = "lt" -> "ge"
    [] cond = "ge" -> "lt"
    [] cond = "le" -> "gt"
    [] cond = "gt" -> "le"

ASSEMBLE_BINOP(asm_instr_reg, asm_instr_imm, i) ==
  IF HasRegisterInput1(i)
  THEN <<Ins(asm_instr_reg, i.out, i.in0, i.in1)>>
  ELSE <<Ins(asm_instr_imm, i.out, i.in0, i.imm1)>>

\* MacroAssembler::TestIfInt32(value, scratch)
TestIfInt32(value, scratch) ==
  <<Ins("lgfr", scratch, value, "-"), Ins("CmpP", scratch, value, "-")>>

ASSEMBLE_ADD_WITH_OVERFLOW32(i) ==
  ASSEMBLE_BINOP("AddP", "AddP_i", i) \o TestIfInt32(i.out, "r0")
ASSEMBLE_SUB_WITH_OVERFLOW32(i) ==
  ASSEMBLE_BINOP("SubP", "SubP_i", i) \o TestIfInt32(i.out, "r0")

Overflow32Ops == {"kS390_AddWithOverflow32", "kS390_SubWithOverflow32"}

\* The cases kS390_AddWithOverflow32 and kS390_SubWithOverflow32.
AssembleOverflow32 ==
  /\ phase = "lower"
  /\ instr.op \in Overflow32Ops
  /\ code' = IF instr.op = "kS390_AddWithOverflow32"
             THEN ASSEMBLE_ADD_WITH_OVERFLOW32(instr)
             ELSE ASSEMBLE_SUB_WITH_OVERFLOW32(instr)
  /\ phase' = "flags"
  /\ UNCHANGED <<instr, gen, m, m0, trace>>

ArchBranchCode_NoUnordered(i, branch) ==
  <<Ins("b", FlagsConditionToCondition(branch.condition, i.op), "-",
        branch.true_label)>>
    \o (IF ~branch.fallthru
        THEN <<Ins("b", "al", "-", branch.false_label)>> ELSE <<>>)

\* The code of CodeGenerator::AssembleArchBranch.
ArchBranchCode(i, branch) ==
  LET tlabel == branch.true_label
      flabel == branch.false_label
      op == i.op
      cond == FlagsConditionToCondition(branch.condition, op)
  IN  (IF op = "kS390_CmpDouble"
       THEN (IF cond \in {"le", "eq", "lt"}
             THEN <<Ins("b", "unordered", "-", flabel)>>
             ELSE IF cond \in {"gt", "ne", "ge"}
             THEN <<Ins("b", "unordered", "-", tlabel)>>
             ELSE <<>>)
       ELSE <<>>)
      \o <<Ins("b", cond, "-", tlabel)>>
      \o (IF ~branch.fallthru THEN <<Ins("b", "al", "-", flabel)>> ELSE <<>>)

\* The blocks after a branch: the false block is the next in assembly order.
BranchBlocks(branch) ==
  <<Ins("block", branch.false_label, "-", "-"),
    Ins("block", branch.true_label, "-", "-")>>

\* FlagsConditionToCondition ends in UNREACHABLE() for a condition it has no
\* case for: generation stops there.
AssembleArchBranch ==
  /\ phase = "flags"
  /\ instr.flags_mode = "kFlags_branch"
  /\ LET branch == [condition |-> instr.flags_condition,
                    true_label |-> GetLabel(instr.tblock),
                    false_label |-> GetLabel(instr.fblock),
                    fallthru |-> instr.fallthru]
     IN  IF FlagsConditionToCondition(branch.condition, instr.op)
              = "kNoCondition"
         THEN code' = code /\ phase' = "fatal"
         ELSE /\ code' = code \o ArchBranchCode(instr, branch)
                            \o BranchBlocks(branch)
              /\ phase' = "run"
  /\ UNCHANGED <<instr, gen, m, m0, trace>>

\* The code of CodeGenerator::AssembleArchBoolean; reg is the last output.
ArchBooleanCode(i, condition) ==
  LET done == DoneLabel
      cond_true == <<"cond_true", 1>>
      cond_false == <<"cond_false", 1>>
      op == i.op
      check_unordered == (op = "kS390_CmpDouble")
      reg == i.outs[Len(i.outs)]
      cond == FlagsConditionToCondition(condition, op)
  IN  (CASE cond \in {"ne", "ge", "gt"} ->
              IF check_unordered
              THEN <<Ins("LoadImmP", reg, "-", 1),
                     Ins("LoadImmP", kScratchReg, "-", 0),
                     Ins("b", "unordered", "-", done),
                     Ins("b", cond, "-", cond_true),
                     Ins("lgr", reg, kScratchReg, "-"),
                     Ins("bind", cond_true, "-", "-")>>
              ELSE <<Ins("LoadImmP", reg, "-", 1),
                     Ins("b", cond, "-", cond_true),
                     Ins("LoadImmP", reg, "-", 0),
                     Ins("bind", cond_true, "-", "-")>>
         [] cond \in {"eq", "lt", "le"} ->
              IF check_unordered
              THEN <<Ins("LoadImmP", reg, "-", 0),
                     Ins("LoadImmP", kScratchReg, "-", 1),
                     Ins("b", "unordered", "-", done),
                     Ins("b", NegateCondition(cond), "-", cond_false),
                     Ins("lgr", reg, kScratchReg, "-"),
                     Ins("bind", cond_false, "-", "-")>>
              ELSE <<Ins("LoadImmP", reg, "-", 0),
                     Ins("b", NegateCondition(cond), "-", cond_false),
                     Ins("LoadImmP", reg, "-", 1),
                     Ins("bind", cond_false, "-", "-")>>)
      \o <<Ins("bind", done, "-", "-")>>

\* DCHECK((condition != kOverflow && condition != kNotOverflow) ||
\*        (op == kS390_AddWithOverflow32 || op == kS390_SubWithOverflow32))
BooleanDCheck(op, condition) ==
  \/ condition \notin {"kOverflow", "kNotOverflow"}
  \/ op \in Overflow32Ops

\* A build with DCHECKs enabled stops at a failed DCHECK; every build stops
\* at UNREACHABLE().
AssembleArchBoolean ==
  /\ phase = "flags"
  /\ instr.flags_mode = "kFlags_set"
  /\ \E debug \in BOOLEAN :
       IF \/ debug /\ ~BooleanDCheck(instr.op, instr.flags_condition)
          \/ FlagsConditionToCondition(instr.flags_condition, instr.op)
               = "kNoCondition"
       THEN code' = code /\ phase' = "fatal"
       ELSE /\ code' = code \o ArchBooleanCode(instr, instr.flags_condition)
                          \o Next1
            /\ phase' = "run"
  /\ UNCHANGED <<instr, gen, m, m0, trace>>

\* A register holds a signed 32-bit value: it is the sign extension of its
\* low half.
IsInt32(x) == x = Unsigned(Signed(Lo(x), HalfBits), RegBits)

\* All signed 32-bit values, and a few register contents that are none.
Int32Values == (0 - HalfMod \div 2)..(HalfMod \div 2 - 1)
Int32Regs == {Unsigned(v, RegBits) : v \in Int32Values}
NonInt32Regs == {HalfMod - 1, HalfMod \div 2}

InitOverflow ==
  /\ instr \in [op : Overflow32Ops, out : {"r2", "r4"}, outs : {<<"r5">>},
                in0 : {"r2"}, in1 : {"r3"}, reg1 : {TRUE}, imm1 : {0},
                flags_mode : {"kFlags_set", "kFlags_branch"},
                flags_condition : {"kOverflow", "kNotOverflow"},
                tblock : {1}, fblock : {2}, fallthru : BOOLEAN]
       \cup [op : Overflow32Ops, out : {"r2", "r4"}, outs : {<<"r5">>},
             in0 : {"r2"}, in1 : {"-"}, reg1 : {FALSE}, imm1 : Int32Values,
             flags_mode : {"kFlags_set", "kFlags_branch"},
             flags_condition : {"kOverflow", "kNotOverflow"},
             tblock : {1}, fblock : {2}, fallthru : BOOLEAN]
  /\ instr.flags_mode = "kFlags_set" => instr.fallthru
  /\ \E a \in Int32Regs \cup NonInt32Regs, b \in Int32Regs \cup NonInt32Regs :
       /\ instr.reg1 \/ b = 0
       /\ m = [R |-> [r \in {"r2", "r3", "r4", "r5", "r0", kScratchReg} |->
                        CASE r = "r2" -> a
                          [] r = "r3" -> b
                          [] OTHER -> RegMod - 2],
               mem |-> <<>>, acc |-> <<>>, cc |-> 0, pc |-> 1]
  /\ m0 = m
  /\ gen = NoGen
  /\ code = <<>>
  /\ trace = <<>>
  /\ phase = "lower"

NextOverflow ==
  \/ AssembleOverflow32 \/ AssembleArchBranch \/ AssembleArchBoolean
  \/ Execute \/ Finish

SpecOverflow == InitOverflow /\ [][NextOverflow]_vars

\* The signed 32-bit inputs of the instruction and their exact sum or
\* difference.
InputA == Signed(Lo(m0.R[instr.in0]), HalfBits)
InputB ==
  IF HasRegisterInput1(instr) THEN Signed(Lo(m0.R[instr.in1]), HalfBits)
  ELSE instr.imm1
ExactResult ==
  IF instr.op = "kS390_AddWithOverflow32" THEN InputA + InputB
  ELSE InputA - InputB
Overflows == ExactResult \notin Int32Values

\* The flags condition holds of the exact result.
FlagsHold == (instr.flags_condition = "kOverflow") = Overflows

\* C10: for AddWithOverflow32 and SubWithOverflow32 on signed 32-bit inputs
\* the condition FlagsConditionToCondition returns for kOverflow holds after
\* the emitted sequence exactly when the exact result is outside the signed
\* 32-bit range; the output register holds the result, a materialized
\* boolean is 1 exactly when its condition holds, and a branch goes to the
\* true label exactly then.
C10_Overflow32 ==
  (/\ phase = "done"
   /\ instr.op \in Overflow32Ops
   /\ IsInt32(m0.R[instr.in0])
   /\ HasRegisterInput1(instr) => IsInt32(m0.R[instr.in1])) =>
     /\ (m.cc \in CondMask(FlagsConditionToCondition("kOverflow", instr.op)))
          = Overflows
     /\ m.R[instr.out] = Unsigned(ExactResult, RegBits)
     /\ instr.flags_mode = "kFlags_set" =>
          m.R[instr.outs[Len(instr.outs)]] = (IF FlagsHold THEN 1 ELSE 0)
     /\ instr.flags_mode = "kFlags_branch" =>
          AtBlock(IF FlagsHold THEN instr.tblock ELSE instr.fblock)

\* Scenario A: 0x7FFFFFFF + 1 overflowed, left 0x80000000 in the output
\* register and materialized kOverflow as 1.
C10_Witness ==
  /\ phase = "done"
  /\ instr.op = "kS390_AddWithOverflow32" /\ HasRegisterInput1(instr)
  /\ instr.flags_mode = "kFlags_set" /\ instr.flags_condition = "kOverflow"
  /\ m0.R[instr.in0] = HalfMod \div 2 - 1 /\ m0.R[instr.in1] = 1
  /\ m.R[instr.out] = HalfMod \div 2
  /\ m.cc \in CondMask("ne")
  /\ m.R[instr.outs[1]] = 1

(***************************************************************************)
(* Compares, and 64-bit add and subtract with a flags continuation.        *)
(***************************************************************************)
\* S390OperandConverter::CompareLogical
CompareLogical(i) ==
  i.flags_condition \in {"kUnsignedLessThan", "kUnsignedGreaterThanOrEqual",
                         "kUnsignedLessThanOrEqual", "kUnsignedGreaterThan"}

ASSEMBLE_COMPARE(cmp_instr, cmpl_instr, i) ==
  IF HasRegisterInput1(i)
  THEN (IF CompareLogical(i)
        THEN <<Ins(cmpl_instr, i.in0, i.in1, "-")>>
        ELSE <<Ins(cmp_instr, i.in0, i.in1, "-")>>)
  ELSE (IF CompareLogical(i)
        THEN <<Ins(cmpl_instr \o "_i", i.in0, "-", i.imm1)>>
        ELSE <<Ins(cmp_instr \o "_i", i.in0, "-", i.imm1)>>)

ASSEMBLE_ADD_WITH_OVERFLOW(i) ==
  IF HasRegisterInput1(i)
  THEN <<Ins("AddAndCheckForOverflow", i.out, i.in0, i.in1)>>
  ELSE <<Ins("AddAndCheckForOverflow_i", i.out, i.in0, i.imm1)>>

\* -i.InputInt32(1): the negation of an int32_t.  That of the minimum is a
\* signed overflow, undefined in C++: the build may wrap it to the minimum
\* itself or negate after widening to intptr_t.
NegatedInt32(v) ==
  IF v = 0 - HalfMod \div 2 THEN {0 - HalfMod \div 2, HalfMod \div 2}
  ELSE {0 - v}

\* negated is the value of -i.InputInt32(1).
ASSEMBLE_SUB_WITH_OVERFLOW(i, negated) ==
  IF HasRegisterInput1(i)
  THEN <<Ins("SubAndCheckForOverflow", i.out, i.in0, i.in1)>>
  ELSE <<Ins("AddAndCheckForOverflow_i", i.out, i.in0, negated)>>

kS390_Add(i) ==
  IF i.flags_mode # "kFlags_none" THEN ASSEMBLE_ADD_WITH_OVERFLOW(i)
  ELSE ASSEMBLE_BINOP("AddP", "AddP_i", i)

kS390_Sub(i, negated) ==
  IF i.flags_mode # "kFlags_none" THEN ASSEMBLE_SUB_WITH_OVERFLOW(i, negated)
  ELSE ASSEMBLE_BINOP("SubP", "SubP_i", i)

kS390_Cmp32(i) == ASSEMBLE_COMPARE("Cmp32", "CmpLogical32", i)
kS390_Cmp64(i) == ASSEMBLE_COMPARE("CmpP", "CmpLogicalP", i)
kS390_CmpDouble(i) == <<Ins("cdbr", i.in0, i.in1, "-")>>

IntFlagOps == {"kS390_Cmp32", "kS390_Cmp64", "kS390_Add", "kS390_Sub"}
FlagOps == IntFlagOps \cup {"kS390_CmpDouble"}

\* The cases kS390_Add, kS390_Sub, kS390_Cmp32, kS390_Cmp64 and
\* kS390_CmpDouble.
AssembleCompare ==
  /\ phase = "lower"
  /\ instr.op \in FlagOps
  /\ \E negated \in NegatedInt32(instr.imm1) :
       code' = CASE instr.op = "kS390_Add" -> kS390_Add(instr)
                 [] instr.op = "kS390_Sub" -> kS390_Sub(instr, negated)
                 [] instr.op = "kS390_Cmp32" -> kS390_Cmp32(instr)
                 [] instr.op = "kS390_Cmp64" -> kS390_Cmp64(instr)
                 [] instr.op = "kS390_CmpDouble" -> kS390_CmpDouble(instr)
  /\ phase' = "flags"
  /\ UNCHANGED <<instr, gen, m, m0, trace>>

\* Flags conditions: those FlagsConditionToCondition has a case for and one
\* it has none for.
OrderConditions ==
  {"kEqual", "kNotEqual", "kSignedLessThan", "kSignedGreaterThanOrEqual",
   "kSignedLessThanOrEqual", "kSignedGreaterThan", "kUnsignedLessThan",
   "kUnsignedGreaterThanOrEqual", "kUnsignedLessThanOrEqual",
   "kUnsignedGreaterThan"}
FlagsConditions ==
  OrderConditions \cup {"kOverflow", "kNotOverflow", "kUnorderedEqual"}

CompareIntSamples ==
  {0, 1, HalfMod \div 2 - 1, HalfMod \div 2, HalfMod - 1, RegMod \div 2 - 1,
   RegMod \div 2, RegMod - 1}
CompareImmSamples == {0 - 1, 0, 1, HalfMod \div 2 - 1}
CompareDoubleSamples ==
  {quiet_NaN, <<0, 1>>, <<1, 1>>, <<0 - 1, 1>>, <<1, 2>>, <<1, 0>>,
   <<0 - 1, 0>>}

InitFlags ==
  /\ instr \in [op : IntFlagOps, out : {"r2", "r4"}, outs : {<<"r5">>},
                in0 : {"r2"}, in1 : {"r3"}, reg1 : {TRUE}, imm1 : {0},
                flags_mode : {"kFlags_set", "kFlags_branch"},
                flags_condition : FlagsConditions,
                tblock : {1}, fblock : {2}, fallthru : BOOLEAN]
       \cup [op : IntFlagOps, out : {"r4"}, outs : {<<"r5">>},
             in0 : {"r2"}, in1 : {"-"}, reg1 : {FALSE},
             imm1 : CompareImmSamples,
             flags_mode : {"kFlags_set", "kFlags_branch"},
             flags_condition : FlagsConditions,
             tblock : {1}, fblock : {2}, fallthru : BOOLEAN]
       \cup [op : {"kS390_CmpDouble"}, out : {"-"}, outs : {<<"r5">>},
             in0 : {"d1"}, in1 : {"d2"}, reg1 : {TRUE}, imm1 : {0},
             flags_mode : {"kFlags_set", "kFlags_branch"},
             flags_condition : FlagsConditions,
             tblock : {1}, fblock : {2}, fallthru : BOOLEAN]
  /\ instr.flags_mode = "kFlags_set" => instr.fallthru
  /\ \E a \in CompareIntSamples, b \in CompareIntSamples,
        x \in CompareDoubleSamples, y \in CompareDoubleSamples :
       /\ instr.op = "kS390_CmpDouble" => a = 0 /\ b = 0
       /\ instr.op # "kS390_CmpDouble" => x = quiet_NaN /\ y = quiet_NaN
       /\ instr.reg1 \/ b = 0
       /\ m = [R |-> [r \in {"r2", "r3", "r4", "r5", "r0", kScratchReg} |->
                        CASE r = "r2" -> a
                          [] r = "r3" -> b
                          [] OTHER -> RegMod - 2],
               D |-> [d \in {"d1", "d2"} |-> IF d = "d1" THEN x ELSE y],
               mem |-> <<>>, acc |-> <<>>, cc |-> 0, pc |-> 1]
  /\ m0 = m
  /\ gen = NoGen
  /\ code = <<>>
  /\ trace = <<>>
  /\ phase = "lower"

NextFlags ==
  \/ AssembleCompare \/ AssembleArchBranch \/ AssembleArchBoolean
  \/ Execute \/ Finish

SpecFlags == InitFlags /\ [][NextFlags]_vars

\* The comparison was unordered: an operand of the double compare is NaN.
Unordered ==
  instr.op = "kS390_CmpDouble"
    /\ (IsNaN(m0.D[instr.in0]) \/ IsNaN(m0.D[instr.in1]))

\* The flags conditions whose unordered case goes to the false label, and
\* those whose unordered case goes to the true label.
UnorderedFalse ==
  {"kEqual", "kSignedLessThan", "kUnsignedLessThan", "kSignedLessThanOrEqual",
   "kUnsignedLessThanOrEqual"}
UnorderedTrue == OrderConditions \ UnorderedFalse

\* C11: in a branch on a CmpDouble result, for every flags condition the
\* lowering accepts, generation succeeds and the code after the compare
\* starts with a branch-on-unordered: to the false label for equal,
\* less-than and less-or-equal, to the true label for not-equal,
\* greater-than and greater-or-equal.  With a NaN operand that branch is
\* the only branch executed and control is at the block it names.
C11_UnorderedRouted ==
  (/\ phase \in {"run", "done", "fatal"}
   /\ instr.op = "kS390_CmpDouble"
   /\ instr.flags_mode = "kFlags_branch"
   /\ instr.flags_condition \in OrderConditions) =>
     LET target == IF instr.flags_condition \in UnorderedFalse
                   THEN GetLabel(instr.fblock) ELSE GetLabel(instr.tblock)
     IN  /\ phase # "fatal"
         /\ code[2] = Ins("b", "unordered", "-", target)
         /\ (phase = "done" /\ Unordered) =>
              /\ trace = <<code[1], code[2]>>
              /\ AtBlock(target[2])

\* Scenario B: a compare with a NaN operand under "less-than" went to the
\* false label through the branch-on-unordered.
C11_Witness ==
  /\ phase = "done"
  /\ instr.op = "kS390_CmpDouble" /\ instr.flags_mode = "kFlags_branch"
  /\ instr.flags_condition = "kSignedLessThan"
  /\ IsNaN(m0.D[instr.in1]) /\ ~IsNaN(m0.D[instr.in0])
  /\ m.cc = 3
  /\ Len(trace) = 2 /\ trace[2].op = "b" /\ trace[2].a = "unordered"
  /\ AtBlock(instr.fblock)

\* The label a sequence of branches leaves control at under condition code
\* cc: that of the first branch whose condition cc satisfies, or the
\* fall-through label.
RECURSIVE BranchTarget(_, _, _)
BranchTarget(c, cc, fallthrough) ==
  IF c = <<>> THEN fallthrough
  ELSE IF cc \in CondMask(Head(c).a) THEN Head(c).c
  ELSE BranchTarget(Tail(c), cc, fallthrough)

\* AssembleArchBranch has a condition for the pair of opcode and flags
\* condition.
BranchAccepts(op, condition) ==
  FlagsConditionToCondition(condition, op) # "kNoCondition"

\* A branch on the instruction's flags condition reaches its true label
\* under condition code cc.
BranchReachesTrue(cc) ==
  LET branch == [condition |-> instr.flags_condition,
                 true_label |-> GetLabel(instr.tblock),
                 false_label |-> GetLabel(instr.fblock), fallthru |-> TRUE]
  IN  BranchTarget(ArchBranchCode(instr, branch), cc, branch.false_label)
        = branch.true_label

\* C12: for every pair of opcode and flags condition that AssembleArchBranch
\* accepts, AssembleArchBoolean generates code too, that code leaves 0 or 1
\* in the instruction's last output register, and it leaves 1 exactly when
\* a branch on the same condition reaches its true label under the same
\* condition code.
C12_BooleanFollowsBranch ==
  (/\ phase \in {"done", "fatal"}
   /\ instr.op \in FlagOps
   /\ instr.flags_mode = "kFlags_set"
   /\ BranchAccepts(instr.op, instr.flags_condition)) =>
     /\ phase = "done"
     /\ m.R[instr.outs[Len(instr.outs)]] =
          (IF BranchReachesTrue(m.cc) THEN 1 ELSE 0)

\* The same statement for the pairs that pass the DCHECK of
\* AssembleArchBoolean.
BooleanFollowsBranchWhereChecked ==
  BooleanDCheck(instr.op, instr.flags_condition) => C12_BooleanFollowsBranch

(***************************************************************************)
(* On-stack replacement: the prologue of a function compiled for OSR.      *)
(***************************************************************************)
\* Control enters the function's code: at its first instruction, or, from
\* unoptimized code whose frame is still on the stack, at the recorded OSR
\* entry offset.
EnterOsrFunction ==
  /\ phase = "body"
  /\ gen.info.is_osr
  /\ code' = code \o Next1
  /\ m' = [m EXCEPT !.pc = IF instr.entry = "osr"
                            THEN gen.osr_pc_offset_ + 1 ELSE 1]
  /\ m0' = m'
  /\ phase' = "run"
  /\ UNCHANGED <<instr, gen, trace>>

InitOsr ==
  /\ instr \in [op : {"function"}, kind : {"JSFunction"},
                saves : SUBSET CalleeSaved,
                double_saves : SUBSET CalleeSavedDoubles,
                pop_count : {0}, returns : {1}, site : {1},
                entry : {"start", "osr"}]
  /\ \E spill \in 0..MaxSpillSlots, align \in 0..1,
        unoptimized \in 0..MaxSpillSlots + 1 :
       gen = [frame |-> [needs_frame |-> TRUE,
                         spill_slot_count |-> spill,
                         align_slots |-> align,
                         frame_slot_count |-> spill,
                         callee_saved_slot_count |-> 0],
              info |-> [is_osr |-> TRUE,
                        UnoptimizedFrameSlots |-> unoptimized],
              osr_pc_offset_ |-> 0 - 1,
              returns |-> 0]
  /\ m = [R |-> [r \in CalleeSaved \cup {"sp", "fp", "r14", "cp", "r3", "ip",
                                          "r1"} |->
                   CASE r = "sp" -> RegMod - 9 * kPointerSize
                     [] r = "fp" -> RegMod - 3 * kPointerSize
                     [] r = "r14" -> 3
                     [] r = "cp" -> 5
                     [] r = "r3" -> 7
                     [] OTHER -> RegMod - 2],
          D |-> [d \in CalleeSavedDoubles |->
                   IF d = "d8" THEN <<1, 2>> ELSE <<-3, 1>>],
          mem |-> <<>>, acc |-> <<>>, cc |-> 0, pc |-> 1]
  /\ m0 = m
  /\ code = <<>>
  /\ trace = <<>>
  /\ phase = "lower"

NextOsr == AssemblePrologue \/ EnterOsrFunction \/ Execute \/ Finish

SpecOsr == InitOsr /\ [][NextOsr]_vars

\* The instructions of the trace with an opcode in ops, in order.
TraceOf(ops) == SelectSeq(trace, LAMBDA i : i.op \in ops)

\* The slots the OSR entry has to add to the unoptimized frame.
OsrExtraSlots ==
  gen.frame.spill_slot_count - gen.info.UnoptimizedFrameSlots
    + (IF instr.double_saves # {} THEN gen.frame.align_slots ELSE 0)

\* The emitted position of the abort.
AbortPosition == CHOOSE k \in 1..Len(code) : code[k].op = "Abort"

\* C16: a function compiled for OSR, entered at its start, reaches the
\* abort before any stack slot is allocated; the recorded OSR entry offset
\* lies after the abort; entered at the OSR entry, the frame on the stack is
\* kept and extended in place by spill slots - unoptimized frame slots +
\* alignment padding of the saved doubles, with no adjustment of sp when
\* that number is not positive.
C16_OsrEntry ==
  phase = "done" =>
    /\ gen.osr_pc_offset_ + 1 > AbortPosition
    /\ instr.entry = "start" =>
         /\ trace[Len(trace)].op = "Abort"
         /\ TraceOf({"lay", "MultiPush", "MultiPushDoubles"}) = <<>>
    /\ instr.entry = "osr" =>
         /\ TraceOf({"Prologue", "StubPrologue", "Push2", "Abort"}) = <<>>
         /\ m.R["fp"] = m0.R["fp"]
         /\ m.R["r3"] = ReadMem(m0, (m0.R["fp"] + RegMod + kFunctionOffset)
                                       % RegMod)
         /\ Len(TraceOf({"lay"})) = (IF OsrExtraSlots > 0 THEN 1 ELSE 0)
         /\ \A k \in 1..Len(trace) :
              trace[k].op = "lay" =>
                trace[k].c = 0 - OsrExtraSlots * kPointerSize
         /\ m.R["sp"] =
              (m0.R["sp"] + 2 * RegMod
                 - ((IF OsrExtraSlots > 0 THEN OsrExtraSlots ELSE 0)
                    + Cardinality(instr.saves)
                    + Cardinality(instr.double_saves)) * kPointerSize) % RegMod

C16_Witness ==
  /\ phase = "done"
  /\ instr.entry = "osr"
  /\ gen.info.UnoptimizedFrameSlots > 0
  /\ OsrExtraSlots > 0
  /\ instr.double_saves # {}
  /\ gen.frame.align_slots = 1
  /\ Len(TraceOf({"lay"})) = 1

(***************************************************************************)
(* Calls and the space kept for lazy deoptimization.                       *)
(***************************************************************************)
\* Largest number of instructions of a generated stream.
MaxInstructions == 4

\* Bytes of an emitted instruction.  The nop is two bytes long.
SizeOf(i) ==
  CASE i.op = "nop" -> 2
    [] i.op = "Call" -> 2
    [] i.op = "Call_code" -> 6
    [] i.op = "CmpP" -> 4
    [] i.op = "other" -> i.c
    [] OTHER -> 6

\* masm()->pc_offset() after the code c.
RECURSIVE pc_offset(_)
pc_offset(c) == IF c = <<>> THEN 0 ELSE SizeOf(Head(c)) + pc_offset(Tail(c))

\* while (padding_size > 0) { __ nop(); padding_size -= 2; }
RECURSIVE Padding(_)
Padding(padding_size) ==
  IF padding_size > 0
  THEN <<Ins("nop", "-", "-", "-")>> \o Padding(padding_size - 2)
  ELSE <<>>

EnsureSpace_NoPadding(g, current_pc) ==
  IF ~g.ShouldEnsureSpaceForLazyDeopt THEN <<>>
  ELSE IF current_pc < g.last_lazy_deopt_pc_
  THEN Padding(g.last_lazy_deopt_pc_ + g.patch_size - current_pc)
  ELSE <<>>

\* CodeGenerator::EnsureSpaceForLazyDeopt
EnsureSpaceForLazyDeopt(g, current_pc) ==
  IF ~g.ShouldEnsureSpaceForLazyDeopt THEN <<>>
  ELSE LET space_needed == g.patch_size
       IN  IF current_pc < g.last_lazy_deopt_pc_ + space_needed
           THEN Padding(g.last_lazy_deopt_pc_ + space_needed - current_pc)
           ELSE <<>>

\* CodeGenerator::RecordCallPosition: a call that needs a frame state marks
\* a lazy deoptimization site at the current position.
RecordCallPosition(g, i, pc) ==
  IF i.needs_frame_state THEN [g EXCEPT !.last_lazy_deopt_pc_ = pc] ELSE g

\* The context check emitted under FLAG_debug_code.
DebugContextCheck(g, func) ==
  IF g.FLAG_debug_code
  THEN <<Ins("LoadP_d", kScratchReg, func, "kContextOffset"),
         Ins("CmpP", "cp", kScratchReg, "-"),
         Ins("Assert", "eq", "-", "kWrongFunctionContext")>>
  ELSE <<>>

\* case kArchCallCodeObject, after EnsureSpaceForLazyDeopt()
kArchCallCodeObject(i) ==
  IF i.reg0
  THEN <<Ins("AddP_i", "ip", i.in0, "kHeaderSize - kHeapObjectTag"),
         Ins("Call", "ip", "-", "-")>>
  ELSE <<Ins("Call_code", i.in0, "-", "-")>>

\* case kArchCallJSFunction, after EnsureSpaceForLazyDeopt()
kArchCallJSFunction(g, i) ==
  DebugContextCheck(g, i.in0)
    \o <<Ins("LoadP_d", "ip", i.in0, "kCodeEntryOffset"),
         Ins("Call", "ip", "-", "-")>>

\* A lazy deoptimization site: the generator state it was lowered in and
\* the number of items emitted before it.
LazySite(g, i, c) ==
  [g EXCEPT !.site = [items |-> Len(c), pc |-> pc_offset(c),
                      last |-> g.last_lazy_deopt_pc_],
            !.n = @ + 1]

\* No PrepareTailCall is pending.
NoTail == [items |-> 0 - 1, stack_param_delta |-> 0]

\* frame_access_state()->ClearSPDelta()
ClearSPDelta(g) == [g EXCEPT !.sp_delta = 0]

\* The three opcodes that call EnsureSpaceForLazyDeopt; the two calls clear
\* the stack pointer delta after RecordCallPosition.
AssembleLazyDeoptSite(i, body) ==
  /\ phase = "lower"
  /\ gen.n < MaxInstructions
  /\ gen.tail = NoTail
  /\ instr' = i
  /\ code' = code \o EnsureSpaceForLazyDeopt(gen, pc_offset(code)) \o body
  /\ LET g == RecordCallPosition(LazySite(gen, i, code), i, pc_offset(code'))
     IN  gen' = IF i.op = "kArchLazyBailout" THEN g ELSE ClearSPDelta(g)
  /\ UNCHANGED <<m, m0, trace, phase>>

AssembleCallCodeObject ==
  \E i \in [op : {"kArchCallCodeObject"}, in0 : {"r2"}, reg0 : BOOLEAN,
            needs_frame_state : BOOLEAN] :
    AssembleLazyDeoptSite(i, kArchCallCodeObject(i))

AssembleCallJSFunction ==
  \E i \in [op : {"kArchCallJSFunction"}, in0 : {"r2"}, reg0 : {TRUE},
            needs_frame_state : BOOLEAN] :
    AssembleLazyDeoptSite(i, kArchCallJSFunction(gen, i))

AssembleLazyBailout ==
  \E i \in [op : {"kArchLazyBailout"}, in0 : {"-"}, reg0 : {FALSE},
            needs_frame_state : BOOLEAN] :
    AssembleLazyDeoptSite(i, <<>>)

\* An instruction that is no lazy deoptimization site.
AssembleOtherInstruction ==
  /\ phase = "lower"
  /\ gen.n < MaxInstructions
  /\ gen.tail = NoTail
  /\ \E size \in {2, 6} :
       /\ instr' = [op |-> "other", size |-> size]
       /\ code' = Append(code, Ins("other", "-", "-", size))
  /\ gen' = [gen EXCEPT !.n = @ + 1]
  /\ UNCHANGED <<m, m0, trace, phase>>

NoSite == [pc |-> 0, items |-> 0, last |-> 0 - 1]

\* The generator state after the prologue: SetFrameAccessToDefault() has
\* chosen FP-relative access exactly when the function has a frame, and the
\* stack pointer delta is zero.
GeneratorStates(ensure, sizes, frames) ==
  {g \in [ShouldEnsureSpaceForLazyDeopt : ensure, FLAG_debug_code : BOOLEAN,
          patch_size : sizes, last_lazy_deopt_pc_ : {0}, site : {NoSite},
          n : {0}, needs_frame : frames, access_frame_with_fp : BOOLEAN,
          sp_delta : {0}, tail : {NoTail}] :
     g.access_frame_with_fp = g.needs_frame}

InitLazyDeopt ==
  /\ gen \in GeneratorStates(BOOLEAN, {6, 16}, {TRUE})
  /\ instr = [op |-> "none"]
  /\ code = <<>>
  /\ m = [pc |-> 1]
  /\ m0 = m
  /\ trace = <<>>
  /\ phase = "lower"

NextLazyDeopt ==
  \/ AssembleCallCodeObject \/ AssembleCallJSFunction \/ AssembleLazyBailout
  \/ AssembleOtherInstruction

SpecLazyDeopt == InitLazyDeopt /\ [][NextLazyDeopt]_vars

\* The nops emitted at the latest lazy deoptimization site, and the offset
\* at which the site's own code starts.
RECURSIVE NopsFrom(_)
NopsFrom(k) ==
  IF k \in 1..Len(code)
  THEN (IF code[k].op = "nop" THEN 1 + NopsFrom(k + 1) ELSE 0)
  ELSE 0
SitePadding == 2 * NopsFrom(gen.site.items + 1)
SiteStart == gen.site.pc + SitePadding

\* C13: when lazy-deopt space must be ensured, every lazy deoptimization
\* site (CallCodeObject, CallJSFunction, LazyBailout) starts at least
\* patch_size bytes after the lazy-deopt position recorded before it; the
\* padding consists of two-byte nops and reaches exactly
\* last_lazy_deopt_pc_ + patch_size, and there is none when the gap is
\* already sufficient or when space need not be ensured.
C13_LazyDeoptSpace ==
  gen.site # NoSite =>
    LET gap == gen.site.last + gen.patch_size - gen.site.pc
    IN  /\ gen.ShouldEnsureSpaceForLazyDeopt =>
             /\ SiteStart >= gen.site.last + gen.patch_size
             /\ gap > 0 => SiteStart = gen.site.last + gen.patch_size
             /\ gap <= 0 => SitePadding = 0
        /\ ~gen.ShouldEnsureSpaceForLazyDeopt => SitePadding = 0

\* A call directly after a recorded call was padded up to the patch size.
C13_Witness ==
  /\ gen.ShouldEnsureSpaceForLazyDeopt
  /\ gen.site # NoSite
  /\ gen.site.last > 0
  /\ gen.site.pc < gen.site.last + gen.patch_size
  /\ SitePadding > 0
  /\ SiteStart = gen.site.last + gen.patch_size
  /\ instr.op = "kArchCallCodeObject"

(***************************************************************************)
(* Pushes, tail calls and the frame access state.                          *)
(***************************************************************************)
\* Largest number of instructions of a stream with pushes and tail calls.
MaxStream == 3

kDoubleSize == 8

\* Slots of the frame above the frame pointer (return address and caller's
\* frame pointer), and the slots of the whole frame.
kFixedSlotCountAboveFp == 2
GetTotalFrameSlotCount(g) == IF g.needs_frame THEN 4 ELSE 2

\* FrameAccessState
SetFrameAccessToDefault(g) ==
  [g EXCEPT !.access_frame_with_fp = g.needs_frame]
SetFrameAccessToSP(g) == [g EXCEPT !.access_frame_with_fp = FALSE]
IncreaseSPDelta(g, amount) == [g EXCEPT !.sp_delta = @ + amount]
FrameSlotToFPOffset(slot) == (kFixedSlotCountAboveFp - 1 - slot) * kPointerSize
GetSPToFPSlotCount(g) ==
  GetTotalFrameSlotCount(g) - kFixedSlotCountAboveFp + g.sp_delta
GetFrameOffset(g, spill_slot) ==
  LET frame_offset == FrameSlotToFPOffset(spill_slot)
  IN  IF g.access_frame_with_fp
      THEN [from_stack_pointer |-> FALSE, offset |-> frame_offset]
      ELSE [from_stack_pointer |-> TRUE,
            offset |-> frame_offset + GetSPToFPSlotCount(g) * kPointerSize]

\* S390OperandConverter::ToMemOperand
ToMemOperand(g, index) ==
  LET offset == GetFrameOffset(g, index)
  IN  [rb |-> IF offset.from_stack_pointer THEN "sp" ELSE "fp",
       offset |-> offset.offset]

\* CodeGenerator::TailCallFrameStackSlotDelta: the return address is not
\* kept on the stack on this target.
TailCallFrameStackSlotDelta(g, stack_param_delta) ==
  (IF g.needs_frame THEN GetTotalFrameSlotCount(g) ELSE 0) + stack_param_delta

\* The code of CodeGenerator::AssembleDeconstructActivationRecord.
DeconstructActivationRecordCode(g, stack_param_delta) ==
  LET sp_slot_delta == TailCallFrameStackSlotDelta(g, stack_param_delta)
  IN  IF sp_slot_delta > 0
      THEN <<Ins("AddP_i", "sp", "sp", sp_slot_delta * kPointerSize)>>
      ELSE <<>>

PrepareTailCall_FpFirst(g, stack_param_delta) ==
  LET sp_slot_delta == TailCallFrameStackSlotDelta(g, stack_param_delta)
  IN  (IF sp_slot_delta < 0
       THEN <<Ins("AddP_i", "sp", "sp", sp_slot_delta * kPointerSize)>>
       ELSE <<>>)
      \o (IF g.needs_frame
          THEN <<Ins("LoadP_d", "fp", "fp", "kCallerFPOffset"),
                 Ins("LoadP_d", "r14", "fp", "kCallerPCOffset")>>
          ELSE <<>>)

\* The code of CodeGenerator::AssemblePrepareTailCall.
PrepareTailCallCode(g, stack_param_delta) ==
  LET sp_slot_delta == TailCallFrameStackSlotDelta(g, stack_param_delta)
  IN  (IF sp_slot_delta < 0
       THEN <<Ins("AddP_i", "sp", "sp", sp_slot_delta * kPointerSize)>>
       ELSE <<>>)
      \o (IF g.needs_frame
          THEN <<Ins("LoadP_d", "r14", "fp", "kCallerPCOffset"),
                 Ins("LoadP_d", "fp", "fp", "kCallerFPOffset")>>
          ELSE <<>>)

\* case kArchPrepareTailCall: AssemblePrepareTailCall(stack_param_delta)
AssemblePrepareTailCall ==
  /\ phase = "lower"
  /\ gen.n < MaxStream
  /\ gen.tail = NoTail
  /\ \E stack_param_delta \in {0 - 1, 0, 1} :
       LET sp_slot_delta == TailCallFrameStackSlotDelta(gen, stack_param_delta)
           g == IF sp_slot_delta < 0
                THEN IncreaseSPDelta(gen, 0 - sp_slot_delta) ELSE gen
       IN  /\ instr' = [op |-> "kArchPrepareTailCall",
                        stack_param_delta |-> stack_param_delta]
           /\ code' = code \o PrepareTailCallCode(gen, stack_param_delta)
           /\ gen' = [SetFrameAccessToSP(g) EXCEPT
                        !.tail = [stack_param_delta |-> stack_param_delta,
                                  items |-> Len(code)],
                        !.n = @ + 1]
  /\ UNCHANGED <<m, m0, trace, phase>>

\* case kArchTailCallCodeObject
kArchTailCallCodeObject(g, i) ==
  DeconstructActivationRecordCode(g, i.stack_param_delta)
    \o (IF i.reg0
        THEN <<Ins("AddP_i", "ip", i.in0, "kHeaderSize - kHeapObjectTag"),
               Ins("Jump", "ip", "-", "-")>>
        ELSE <<Ins("Jump_code", i.in0, "-", "-")>>)

\* case kArchTailCallJSFunction
kArchTailCallJSFunction(g, i) ==
  DebugContextCheck(g, i.in0)
    \o DeconstructActivationRecordCode(g, i.stack_param_delta)
    \o <<Ins("LoadP_d", "ip", i.in0, "kCodeEntryOffset"),
         Ins("Jump", "ip", "-", "-")>>

\* The tail call that follows PrepareTailCall, on the same stack parameter
\* delta: AssembleDeconstructActivationRecord sets the frame access to its
\* default, and the delta is cleared after the jump.
AssembleTailCall ==
  /\ phase = "lower"
  /\ gen.tail # NoTail
  /\ \E i \in [op : {"kArchTailCallCodeObject", "kArchTailCallJSFunction"},
              in0 : {"r2"}, reg0 : BOOLEAN,
              stack_param_delta : {gen.tail.stack_param_delta}] :
       /\ i.op = "kArchTailCallJSFunction" => i.reg0
       /\ instr' = [op |-> i.op, in0 |-> i.in0, reg0 |-> i.reg0,
                    stack_param_delta |-> i.stack_param_delta,
                    prepared |-> gen.tail.items]
       /\ code' = code \o (IF i.op = "kArchTailCallCodeObject"
                           THEN kArchTailCallCodeObject(gen, i)
                           ELSE kArchTailCallJSFunction(gen, i))
  /\ gen' = [ClearSPDelta(SetFrameAccessToDefault(gen)) EXCEPT
               !.tail = NoTail, !.n = @ + 1]
  /\ UNCHANGED <<m, m0, trace, phase>>

\* case kS390_Push
AssemblePush ==
  /\ phase = "lower"
  /\ gen.n < MaxStream
  /\ gen.tail = NoTail
  /\ \E i \in [op : {"kS390_Push"}, in0 : {"r2", "d1"}] :
       /\ instr' = i
       /\ IF i.in0 = "d1"
          THEN /\ code' = code \o <<Ins("StoreF_d", i.in0, "sp", 0 - kDoubleSize),
                                    Ins("lay", "sp", "sp", 0 - kDoubleSize)>>
               /\ gen' = [IncreaseSPDelta(gen, kDoubleSize \div kPointerSize)
                            EXCEPT !.n = @ + 1]
          ELSE /\ code' = code \o <<Ins("Push", i.in0, "-", "-")>>
               /\ gen' = [IncreaseSPDelta(gen, 1) EXCEPT !.n = @ + 1]
  /\ UNCHANGED <<m, m0, trace, phase>>

\* case kS390_PushFrame
AssemblePushFrame ==
  /\ phase = "lower"
  /\ gen.n < MaxStream
  /\ gen.tail = NoTail
  /\ \E i \in [op : {"kS390_PushFrame"}, in0 : {"r2", "d1"}, num_slots : 1..2] :
       /\ instr' = i
       /\ code' = code
            \o <<Ins(IF i.in0 = "d1" THEN "StoreF_d" ELSE "StoreP_d", i.in0, "sp",
                     (0 - i.num_slots) * kPointerSize),
                 Ins("lay", "sp", "sp", (0 - i.num_slots) * kPointerSize)>>
  /\ gen' = [gen EXCEPT !.n = @ + 1]
  /\ UNCHANGED <<m, m0, trace, phase>>

\* A gap move that reads a stack slot: AssembleMove resolves the slot with
\* ToMemOperand at this point of the stream.
AssembleSlotLoad ==
  /\ phase = "lower"
  /\ gen.n < MaxStream
  /\ \E index \in 0..1 :
       LET src == ToMemOperand(gen, index)
       IN  /\ instr' = [op |-> "gap", index |-> index]
           /\ code' = Append(code, Ins("LoadP_d", "r3", src.rb, src.offset))
  /\ gen' = [gen EXCEPT !.n = @ + 1]
  /\ UNCHANGED <<m, m0, trace, phase>>

InitTailCall ==
  /\ gen \in GeneratorStates({FALSE}, {16}, BOOLEAN)
  /\ instr = [op |-> "none"]
  /\ code = <<>>
  /\ m = [pc |-> 1]
  /\ m0 = m
  /\ trace = <<>>
  /\ phase = "lower"

NextTailCall ==
  \/ AssemblePush \/ AssemblePushFrame \/ AssembleSlotLoad
  \/ AssemblePrepareTailCall \/ AssembleTailCall
  \/ AssembleCallCodeObject \/ AssembleCallJSFunction

SpecTailCall == InitTailCall /\ [][NextTailCall]_vars

TailCallOps == {"kArchTailCallCodeObject", "kArchTailCallJSFunction"}
CallOps == {"kArchCallCodeObject", "kArchCallJSFunction"}
JumpOps == {"Jump", "Jump_code"}

\* The k-th emitted instruction is a load from the frame pointer's frame at
\* the named offset into register r.
LoadsFromFrame(k, r, offset) ==
  /\ code[k].op = "LoadP_d" /\ code[k].a = r /\ code[k].b = "fp"
  /\ code[k].c = offset

\* The k-th emitted instruction addresses memory through the frame pointer.
ThroughFp(k) == code[k].op \in {"LoadP_d", "StoreP_d", "StoreF_d"} /\ code[k].b = "fp"

SpSlots(i) ==
  CASE i.op = "Push" -> 1
    [] i.op \in {"lay", "AddP_i"} /\ i.a = "sp" -> (0 - i.c) \div kPointerSize
    [] OTHER -> 0

\* Slots by which the code emitted since the last call or jump has moved sp
\* down.
RECURSIVE SlotsBelow(_)
SlotsBelow(c) ==
  IF c = <<>> THEN 0
  ELSE IF c[Len(c)].op \in JumpOps \cup {"Call", "Call_code"} THEN 0
  ELSE SpSlots(c[Len(c)]) + SlotsBelow(SubSeq(c, 1, Len(c) - 1))

\* The offset from the frame pointer of the prologue of the address a slot
\* load through sp uses.
ResolvedFPOffset ==
  code[Len(code)].c
    - (GetTotalFrameSlotCount(gen) - kFixedSlotCountAboveFp + SlotsBelow(code))
        * kPointerSize

\* C15: after any sequence of Push, PushFrame, PrepareTailCall, call and
\* tail-call opcodes the tracked stack pointer delta equals the number of
\* slots the emitted code has moved sp down, an SP-relative stack slot
\* operand resolves to the slot's address, and the delta is zero after
\* every call and tail call.
C15_DeltaTracksSp ==
  /\ gen.sp_delta = SlotsBelow(code)
  /\ instr.op \in CallOps \cup TailCallOps => gen.sp_delta = 0
  /\ (instr.op = "gap" /\ code[Len(code)].b = "sp") =>
       ResolvedFPOffset = FrameSlotToFPOffset(instr.index)

(***************************************************************************)
(* Gap moves: AssembleMove and AssembleSwap.                               *)
(***************************************************************************)
\* An instruction operand of the register allocator: a general register, a
\* stack slot, a double register or a double stack slot with its code or
\* slot index, or a constant with its index in the constant pool.
Operand(kind, index) == [kind |-> kind, index |-> index]
IsRegister(op) == op.kind = "Register"
IsStackSlot(op) == op.kind = "StackSlot"
IsConstant(op) == op.kind = "Constant"
IsDoubleRegister(op) == op.kind = "DoubleRegister"
IsDoubleStackSlot(op) == op.kind = "DoubleStackSlot"

\* S390OperandConverter::ToRegister, ToDoubleRegister
ToRegister(op) ==
  CASE op.index = 2 -> "r2" [] op.index = 3 -> "r3" [] op.index = 4 -> "r4"
    [] op.index = 5 -> "r5"
ToDoubleRegister(op) ==
  CASE op.index = 1 -> "d1" [] op.index = 2 -> "d2" [] op.index = 3 -> "d3"
    [] op.index = 4 -> "d4"

\* The constants of the instruction sequence.  A heap object may be
\* materializable from the frame or from the root list; handle is the
\* address of the object (for a number constant moved to a general
\* register, of the heap number allocated for it).
Constant(type, value, x, from, handle) ==
  [type |-> type, value |-> value, x |-> x, from |-> from, handle |-> handle]
ConstantPool ==
  <<Constant("kInt32", 0 - 1, <<0, 1>>, "-", 0),
    Constant("kInt64", 100, <<0, 1>>, "-", 0),
    Constant("kFloat32", 0, <<3, 2>>, "-", 201),
    Constant("kFloat64", 0, <<-5, 4>>, "-", 202),
    Constant("kExternalReference", 77, <<0, 1>>, "-", 0),
    Constant("kHeapObject", kFunctionOffset, <<0, 1>>, "frame", 150),
    Constant("kHeapObject", 3, <<0, 1>>, "root", RootValue(3)),
    Constant("kHeapObject", 0, <<0, 1>>, "handle", 151),
    Constant("kRpoNumber", 1, <<0, 1>>, "-", 0)>>
ToConstant(op) == ConstantPool[op.index]
FloatConstant(c) == c.type \in {"kFloat32", "kFloat64"}

\* MacroAssembler::Move(dst, src) for general and for double registers.
Move(dst, src) == IF dst # src THEN <<Ins("lgr", dst, src, "-")>> ELSE <<>>
MoveDouble(dst, src) ==
  IF dst # src THEN <<Ins("ldr", dst, src, "-")>> ELSE <<>>

\* AssembleMove, constant source with a general destination: the code that
\* loads the constant into dst.
MoveConstantCode(src, dst) ==
  CASE src.type \in {"kInt32", "kInt64", "kExternalReference"} ->
         <<Ins("mov", dst, "-", src.value)>>
    [] FloatConstant(src) -> <<Ins("Move_h", dst, "-", src.handle)>>
    [] src.type = "kHeapObject" ->
         IF src.from = "frame"
         THEN <<Ins("LoadP_d", dst, "fp", src.value)>>
         ELSE IF src.from = "root"
         THEN <<Ins("LoadRoot", dst, "-", src.value)>>
         ELSE <<Ins("Move_h", dst, "-", src.handle)>>

\* UNREACHABLE() of AssembleMove: an RPO number constant, or a source that
\* is no operand kind of the dispatch.
MoveUnreachable(source, destination) ==
  IF IsConstant(source)
  THEN /\ IsRegister(destination) \/ IsStackSlot(destination)
       /\ ToConstant(source).type = "kRpoNumber"
  ELSE source.kind \notin {"Register", "StackSlot", "DoubleRegister",
                           "DoubleStackSlot"}

AssembleMove_NoScratch(g, source, destination) ==
  LET dst == ToMemOperand(g, destination.index)
      src == ToMemOperand(g, source.index)
  IN
  IF IsRegister(source)
  THEN IF IsRegister(destination)
       THEN Move(ToRegister(destination), ToRegister(source))
       ELSE <<Ins("StoreP_d", ToRegister(source), dst.rb, dst.offset)>>
  ELSE IF IsStackSlot(source)
  THEN IF IsRegister(destination)
       THEN <<Ins("LoadP_d", ToRegister(destination), src.rb, src.offset)>>
       ELSE <<Ins("LoadP_d", "r2", src.rb, src.offset),
              Ins("StoreP_d", "r2", dst.rb, dst.offset)>>
  ELSE IF IsConstant(source)
  THEN IF IsRegister(destination) \/ IsStackSlot(destination)
       THEN LET reg == IF IsRegister(destination) THEN ToRegister(destination)
                       ELSE kScratchReg
            IN  MoveConstantCode(ToConstant(source), reg)
                \o (IF IsStackSlot(destination)
                    THEN <<Ins("StoreP_d", reg, dst.rb, dst.offset)>>
                    ELSE <<>>)
       ELSE LET reg == IF IsDoubleRegister(destination)
                       THEN ToDoubleRegister(destination)
                       ELSE kScratchDoubleReg
            IN  <<Ins("LoadDoubleLiteral", reg, ToConstant(source).x,
                      kScratchReg)>>
                \o (IF IsDoubleStackSlot(destination)
                    THEN <<Ins("StoreF_d", reg, dst.rb, dst.offset)>>
                    ELSE <<>>)
  ELSE IF IsDoubleRegister(source)
  THEN IF IsDoubleRegister(destination)
       THEN MoveDouble(ToDoubleRegister(destination), ToDoubleRegister(source))
       ELSE <<Ins("StoreF_d", ToDoubleRegister(source), dst.rb, dst.offset)>>
  ELSE IF IsDoubleRegister(destination)
       THEN <<Ins("LoadF_d", ToDoubleRegister(destination), src.rb,
                  src.offset)>>
       ELSE <<Ins("LoadF_d", "d1", src.rb, src.offset),
              Ins("StoreF_d", "d1", dst.rb, dst.offset)>>

\* The code CodeGenerator::AssembleMove emits for a source and a
\* destination the dispatch reaches.
AssembleMoveCode(g, source, destination) ==
  LET dst == ToMemOperand(g, destination.index)
      src == ToMemOperand(g, source.index)
  IN
  IF IsRegister(source)
  THEN IF IsRegister(destination)
       THEN Move(ToRegister(destination), ToRegister(source))
       ELSE <<Ins("StoreP_d", ToRegister(source), dst.rb, dst.offset)>>
  ELSE IF IsStackSlot(source)
  THEN IF IsRegister(destination)
       THEN <<Ins("LoadP_d", ToRegister(destination), src.rb, src.offset)>>
       ELSE <<Ins("LoadP_d", kScratchReg, src.rb, src.offset),
              Ins("StoreP_d", kScratchReg, dst.rb, dst.offset)>>
  ELSE IF IsConstant(source)
  THEN IF IsRegister(destination) \/ IsStackSlot(destination)
       THEN LET reg == IF IsRegister(destination) THEN ToRegister(destination)
                       ELSE kScratchReg
            IN  MoveConstantCode(ToConstant(source), reg)
                \o (IF IsStackSlot(destination)
                    THEN <<Ins("StoreP_d", reg, dst.rb, dst.offset)>>
                    ELSE <<>>)
       ELSE LET reg == IF IsDoubleRegister(destination)
                       THEN ToDoubleRegister(destination)
                       ELSE kScratchDoubleReg
            IN  <<Ins("LoadDoubleLiteral", reg, ToConstant(source).x,
                      kScratchReg)>>
                \o (IF IsDoubleStackSlot(destination)
                    THEN <<Ins("StoreF_d", reg, dst.rb, dst.offset)>>
                    ELSE <<>>)
  ELSE IF IsDoubleRegister(source)
  THEN IF IsDoubleRegister(destination)
       THEN MoveDouble(ToDoubleRegister(destination), ToDoubleRegister(source))
       ELSE <<Ins("StoreF_d", ToDoubleRegister(source), dst.rb, dst.offset)>>
  ELSE IF IsDoubleRegister(destination)
       THEN <<Ins("LoadF_d", ToDoubleRegister(destination), src.rb,
                  src.offset)>>
       ELSE <<Ins("LoadF_d", kScratchDoubleReg, src.rb, src.offset),
              Ins("StoreF_d", kScratchDoubleReg, dst.rb, dst.offset)>>

\* AssembleSwap, two stack slots or two double stack slots (the 64-bit
\* build exchanges both kinds through kScratchReg and r0).
SwapSlots_SameTemp(src, dst) ==
  <<Ins("LoadP_d", kScratchReg, src.rb, src.offset),
    Ins("LoadP_d", kScratchReg, dst.rb, dst.offset),
    Ins("StoreP_d", kScratchReg, dst.rb, dst.offset),
    Ins("StoreP_d", kScratchReg, src.rb, src.offset)>>

SwapSlots(src, dst) ==
  <<Ins("LoadP_d", kScratchReg, src.rb, src.offset),
    Ins("LoadP_d", "r0", dst.rb, dst.offset),
    Ins("StoreP_d", kScratchReg, dst.rb, dst.offset),
    Ins("StoreP_d", "r0", src.rb, src.offset)>>

\* UNREACHABLE() of AssembleSwap.
SwapUnreachable(source, destination) ==
  source.kind \notin {"Register", "StackSlot", "DoubleRegister",
                      "DoubleStackSlot"}

AssembleSwap_NoTemp(g, source, destination) ==
  LET dst == ToMemOperand(g, destination.index)
  IN
  IF IsRegister(source)
  THEN IF IsRegister(destination)
       THEN <<Ins("lgr", ToRegister(source), ToRegister(destination), "-"),
              Ins("lgr", ToRegister(destination), ToRegister(source), "-")>>
       ELSE <<Ins("lgr", kScratchReg, ToRegister(source), "-"),
              Ins("StoreP_d", kScratchReg, dst.rb, dst.offset),
              Ins("LoadP_d", ToRegister(source), dst.rb, dst.offset)>>
  ELSE IF IsStackSlot(source) \/ IsDoubleStackSlot(source)
  THEN SwapSlots(ToMemOperand(g, source.index), dst)
  ELSE IF IsDoubleRegister(destination)
       THEN <<Ins("ldr", ToDoubleRegister(source),
                  ToDoubleRegister(destination), "-"),
              Ins("ldr", ToDoubleRegister(destination),
                  ToDoubleRegister(source), "-")>>
       ELSE <<Ins("ldr", kScratchDoubleReg, ToDoubleRegister(source), "-"),
              Ins("StoreF_d", kScratchDoubleReg, dst.rb, dst.offset),
              Ins("LoadF_d", ToDoubleRegister(source), dst.rb, dst.offset)>>

\* The code CodeGenerator::AssembleSwap emits.
AssembleSwapCode(g, source, destination) ==
  LET dst == ToMemOperand(g, destination.index)
  IN
  IF IsRegister(source)
  THEN IF IsRegister(destination)
       THEN <<Ins("lgr", kScratchReg, ToRegister(source), "-"),
              Ins("lgr", ToRegister(source), ToRegister(destination), "-"),
              Ins("lgr", ToRegister(destination), kScratchReg, "-")>>
       ELSE <<Ins("lgr", kScratchReg, ToRegister(source), "-"),
              Ins("LoadP_d", ToRegister(source), dst.rb, dst.offset),
              Ins("StoreP_d", kScratchReg, dst.rb, dst.offset)>>
  ELSE IF IsStackSlot(source) \/ IsDoubleStackSlot(source)
  THEN SwapSlots(ToMemOperand(g, source.index), dst)
  ELSE IF IsDoubleRegister(destination)
       THEN <<Ins("ldr", kScratchDoubleReg, ToDoubleRegister(source), "-"),
              Ins("ldr", ToDoubleRegister(source),
                  ToDoubleRegister(destination), "-"),
              Ins("ldr", ToDoubleRegister(destination), kScratchDoubleReg,
                  "-")>>
       ELSE <<Ins("ldr", kScratchDoubleReg, ToDoubleRegister(source), "-"),
              Ins("LoadF_d", ToDoubleRegister(source), dst.rb, dst.offset),
              Ins("StoreF_d", kScratchDoubleReg, dst.rb, dst.offset)>>

\* The operands of the gap moves of the model: MaxOperands \div 2 of each
\* kind, and the constants of the pool.
MaxOperands == 4
OperandsPerKind == MaxOperands \div 2
FirstSpillSlot == 4
GeneralOperands ==
  {Operand("Register", k) : k \in 2..(1 + OperandsPerKind)}
    \cup {Operand("StackSlot", k) :
            k \in FirstSpillSlot..(FirstSpillSlot + OperandsPerKind - 1)}
DoubleOperands ==
  {Operand("DoubleRegister", k) : k \in 1..OperandsPerKind}
    \cup {Operand("DoubleStackSlot", k) :
            k \in (FirstSpillSlot + OperandsPerKind)
                    ..(FirstSpillSlot + 2 * OperandsPerKind - 1)}
GapOperands == GeneralOperands \cup DoubleOperands
ConstantOperands == {Operand("Constant", k) : k \in 1..Len(ConstantPool)}

\* The pairs AssembleMove is called with: same-class locations, a constant
\* into a location of its class (a heap object from the frame only where
\* there is a frame), and the RPO number no move may have.
MovePair(g, source, destination) ==
  /\ source # destination
  /\ IF IsConstant(source)
     THEN LET c == ToConstant(source)
          IN  /\ destination \in DoubleOperands => FloatConstant(c)
              /\ c.from = "frame" => g.needs_frame
     ELSE source \in GeneralOperands <=> destination \in GeneralOperands

\* The pairs the gap resolver calls AssembleSwap with: the source is a
\* register, or both are stack slots of one kind.
SwapPair(source, destination) ==
  /\ source # destination
  /\ \/ IsRegister(source) /\ destination \in GeneralOperands
     \/ IsDoubleRegister(source) /\ destination \in DoubleOperands
     \/ IsStackSlot(source) /\ IsStackSlot(destination)
     \/ IsDoubleStackSlot(source) /\ IsDoubleStackSlot(destination)

AssembleMove ==
  /\ phase = "lower"
  /\ \E source \in GapOperands \cup ConstantOperands,
        destination \in GapOperands :
       /\ MovePair(gen, source, destination)
       /\ instr' = [op |-> "move", source |-> source,
                    destination |-> destination]
       /\ IF MoveUnreachable(source, destination)
          THEN code' = code /\ phase' = "fatal"
          ELSE /\ code' = AssembleMoveCode(gen, source, destination) \o Next1
               /\ phase' = "run"
  /\ UNCHANGED <<gen, m, m0, trace>>

AssembleSwap ==
  /\ phase = "lower"
  /\ \E source \in GapOperands, destination \in GapOperands :
       /\ SwapPair(source, destination)
       /\ instr' = [op |-> "swap", source |-> source,
                    destination |-> destination]
       /\ IF SwapUnreachable(source, destination)
          THEN code' = code /\ phase' = "fatal"
          ELSE /\ code' = AssembleSwapCode(gen, source, destination) \o Next1
               /\ phase' = "run"
  /\ UNCHANGED <<gen, m, m0, trace>>

\* The address of a stack slot in a machine state.
SlotAddress(s, g, index) ==
  LET mem == ToMemOperand(g, index)
  IN  (s.R[mem.rb] + RegMod + mem.offset) % RegMod

\* The frame of the function before a gap move: every operand holds a value
\* of its own (doubles whose bit pattern the model represents), and the
\* frame holds the function.
GapRegisters == {ToRegister(op) : op \in {o \in GeneralOperands : IsRegister(o)}}
GapDoubleRegisters ==
  {ToDoubleRegister(op) : op \in {o \in DoubleOperands : IsDoubleRegister(o)}}
GapMachine(g) ==
  LET R == [r \in GapRegisters \cup {kScratchReg, "r0", "sp", "fp"} |->
              CASE r = "fp" -> 128
                [] r = "sp" -> IF g.needs_frame THEN 48 ELSE 128
                [] r = kScratchReg -> 90
                [] r = "r0" -> 91
                [] r = "r2" -> 11
                [] r = "r3" -> 12
                [] OTHER -> 13]
      D == [d \in GapDoubleRegisters \cup {kScratchDoubleReg} |->
              CASE d = kScratchDoubleReg -> <<7, 8>>
                [] d = "d1" -> <<3, 1>>
                [] d = "d2" -> quiet_NaN
                [] OTHER -> <<6, 1>>]
      s == [R |-> R, D |-> D]
      cells == {<<SlotAddress(s, g, op.index),
                  IF IsStackSlot(op) THEN IntCell(20 + op.index)
                  ELSE DoubleCell(<<op.index - FirstSpillSlot, 1>>)>> :
                  op \in {o \in GapOperands :
                            IsStackSlot(o) \/ IsDoubleStackSlot(o)}}
                 \cup {<<(128 + RegMod + kFunctionOffset) % RegMod,
                         IntCell(150)>>}
  IN  [R |-> R, D |-> D,
       mem |-> [a \in {c[1] : c \in cells} |->
                  (CHOOSE c \in cells : c[1] = a)[2]],
       acc |-> <<>>, cc |-> 0, pc |-> 1]

InitGap ==
  /\ gen \in {g \in GeneratorStates({FALSE}, {16}, BOOLEAN) :
                ~g.FLAG_debug_code}
  /\ instr = [op |-> "none"]
  /\ code = <<>>
  /\ m = GapMachine(gen)
  /\ m0 = m
  /\ trace = <<>>
  /\ phase = "lower"

\* What an operand holds in a machine state.
ValueOf(s, op) ==
  CASE IsRegister(op) -> s.R[ToRegister(op)]
    [] IsStackSlot(op) -> ReadMem(s, SlotAddress(s, gen, op.index))
    [] IsDoubleRegister(op) -> <<s.D[ToDoubleRegister(op)]>>
    [] IsDoubleStackSlot(op) ->
         <<ReadDouble(s, SlotAddress(s, gen, op.index), RegBits)>>

\* What a source holds before the move: for a constant, its value, the
\* address of its object or, for a double destination, the number.
SourceValue(source, destination) ==
  IF IsConstant(source)
  THEN LET c == ToConstant(source)
       IN  IF destination \in DoubleOperands THEN <<c.x>>
           ELSE IF c.type \in {"kInt32", "kInt64", "kExternalReference"}
           THEN Unsigned(c.value, RegBits)
           ELSE c.handle
  ELSE ValueOf(m0, source)

\* The registers the code generator reserves for itself.
ReservedScratch == {kScratchReg, "r0", kScratchDoubleReg}

\* Every location but the given operands and the reserved scratch
\* registers holds what it held before.
OthersUnchanged(ops) ==
  /\ \A r \in DOMAIN m.R :
       (r \notin ReservedScratch
          /\ \A op \in ops : IsRegister(op) => ToRegister(op) # r)
         => m.R[r] = m0.R[r]
  /\ \A d \in DOMAIN m.D :
       (d \notin ReservedScratch
          /\ \A op \in ops : IsDoubleRegister(op) => ToDoubleRegister(op) # d)
         => m.D[d] = m0.D[d]
  /\ \A a \in (DOMAIN m.mem) \cup (DOMAIN m0.mem) :
       (\A op \in ops : (IsStackSlot(op) \/ IsDoubleStackSlot(op))
                           => SlotAddress(m0, gen, op.index) # a)
         => ReadMem(m, a) = ReadMem(m0, a)

\* The value was loaded into register reg and stored from it.
ThroughScratch(reg) ==
  \E j \in 1..Len(trace), k \in 1..Len(trace) :
    /\ j < k
    /\ trace[j].op \in {"LoadP_d", "LoadF_d", "mov", "Move_h", "LoadRoot",
                        "LoadDoubleLiteral"}
    /\ trace[j].a = reg
    /\ trace[k].op \in {"StoreP_d", "StoreF_d"}
    /\ trace[k].a = reg

IsMemory(op) == IsStackSlot(op) \/ IsDoubleStackSlot(op)

\* C18: AssembleMove leaves the destination holding the source's value and
\* the source unchanged, modifies no location but the destination and the
\* reserved scratch registers, and passes the value through the scratch
\* general or double register when the destination is memory and the
\* source is memory or a constant.
C18_MoveEffect ==
  (phase = "done" /\ instr.op = "move") =>
    /\ ValueOf(m, instr.destination)
         = SourceValue(instr.source, instr.destination)
    /\ ~IsConstant(instr.source) =>
         ValueOf(m, instr.source) = ValueOf(m0, instr.source)
    /\ OthersUnchanged({instr.destination})
    /\ (IsMemory(instr.destination)
          /\ (IsMemory(instr.source) \/ IsConstant(instr.source))) =>
         ThroughScratch(IF IsStackSlot(instr.destination) THEN kScratchReg
                        ELSE kScratchDoubleReg)

C18_Witness ==
  /\ phase = "done"
  /\ instr.op = "move"
  /\ IsStackSlot(instr.source)
  /\ IsStackSlot(instr.destination)
  /\ ThroughScratch(kScratchReg)
  /\ ValueOf(m, instr.destination) # ValueOf(m0, instr.destination)

\* C19: AssembleSwap exchanges the contents of its two operands, changes
\* no other location but the reserved scratch registers, and exchanges two
\* registers in three steps through the scratch register.
C19_SwapEffect ==
  (phase = "done" /\ instr.op = "swap") =>
    /\ ValueOf(m, instr.destination) = ValueOf(m0, instr.source)
    /\ ValueOf(m, instr.source) = ValueOf(m0, instr.destination)
    /\ OthersUnchanged({instr.source, instr.destination})
    /\ (IsRegister(instr.source) /\ IsRegister(instr.destination)) =>
         /\ Len(trace) = 3
         /\ \A k \in 1..3 : trace[k].op = "lgr"
         /\ trace[1].a = kScratchReg
         /\ trace[3].b = kScratchReg
    /\ (IsDoubleRegister(instr.source)
          /\ IsDoubleRegister(instr.destination)) =>
         /\ Len(trace) = 3
         /\ \A k \in 1..3 : trace[k].op = "ldr"
         /\ trace[1].a = kScratchDoubleReg
         /\ trace[3].b = kScratchDoubleReg

C19_Witness ==
  /\ phase = "done"
  /\ instr.op = "swap"
  /\ IsRegister(instr.source)
  /\ IsRegister(instr.destination)
  /\ Len(trace) = 3
  /\ m.R[ToRegister(instr.source)] = m0.R[ToRegister(instr.destination)]
  /\ m.R[ToRegister(instr.source)] # m0.R[ToRegister(instr.source)]

(***************************************************************************)
(* The gap resolver: a parallel move as a sequence of moves and swaps.     *)
(***************************************************************************)
\* MoveOperands: a pending move has its destination cleared, an eliminated
\* move both operands.
MoveOperands(source, destination) ==
  [source |-> source, destination |-> destination, pending |-> FALSE,
   eliminated |-> FALSE]
MoveBlocks(move, operand) == ~move.eliminated /\ move.source = operand
IsRedundant(move) == move.eliminated \/ move.source = move.destination

\* The sources of the moves not yet performed after a swap of source and
\* destination.
UpdateSources_OneSide(moves, source, destination) ==
  [j \in 1..Len(moves) |->
     IF MoveBlocks(moves[j], source)
     THEN [moves[j] EXCEPT !.source = destination]
     ELSE moves[j]]

UpdateSources(moves, source, destination) ==
  [j \in 1..Len(moves) |->
     IF MoveBlocks(moves[j], source)
     THEN [moves[j] EXCEPT !.source = destination]
     ELSE IF MoveBlocks(moves[j], destination)
     THEN [moves[j] EXCEPT !.source = source]
     ELSE moves[j]]

\* GapResolver::PerformMove on move k: st.moves is the parallel move and
\* st.out the calls of AssembleMove and AssembleSwap made so far.
RECURSIVE PerformMove(_, _)
RECURSIVE PerformBlockers(_, _, _)
PerformBlockers(st, destination, j) ==
  IF j > Len(st.moves) THEN st
  ELSE IF MoveBlocks(st.moves[j], destination) /\ ~st.moves[j].pending
  THEN PerformBlockers(PerformMove(st, j), destination, j + 1)
  ELSE PerformBlockers(st, destination, j + 1)

PerformMove(st, k) ==
  LET destination == st.moves[k].destination
      s1 == PerformBlockers([st EXCEPT !.moves[k].pending = TRUE],
                            destination, 1)
      source == s1.moves[k].source
      done == [s1.moves EXCEPT ![k].pending = FALSE, ![k].eliminated = TRUE]
      stack_first == IsStackSlot(source) \/ IsDoubleStackSlot(source)
      swap_source == IF stack_first THEN destination ELSE source
      swap_destination == IF stack_first THEN source ELSE destination
  IN  IF source = destination THEN [s1 EXCEPT !.moves = done]
      ELSE IF \A j \in 1..Len(s1.moves) : ~MoveBlocks(done[j], destination)
      THEN [moves |-> done,
            out |-> Append(s1.out, [op |-> "move", source |-> source,
                                    destination |-> destination])]
      ELSE [moves |-> UpdateSources(done, swap_source, swap_destination),
            out |-> Append(s1.out, [op |-> "swap", source |-> swap_source,
                                    destination |-> swap_destination])]

\* GapResolver::Resolve: the redundant moves are dropped, then every move
\* not yet eliminated is performed.
RECURSIVE ResolveFrom(_, _)
ResolveFrom(st, k) ==
  IF k > Len(st.moves) THEN st.out
  ELSE IF st.moves[k].eliminated THEN ResolveFrom(st, k + 1)
  ELSE ResolveFrom(PerformMove(st, k), k + 1)
Resolve(moves) ==
  ResolveFrom([moves |-> SelectSeq(moves, LAMBDA mv : ~IsRedundant(mv)),
               out |-> <<>>], 1)

\* The code of a sequence of AssembleMove and AssembleSwap calls.
RECURSIVE GapCode(_, _)
GapCode(g, out) ==
  IF out = <<>> THEN <<>>
  ELSE (IF Head(out).op = "move"
        THEN AssembleMoveCode(g, Head(out).source, Head(out).destination)
        ELSE AssembleSwapCode(g, Head(out).source, Head(out).destination))
       \o GapCode(g, Tail(out))

\* The parallel moves that permute at most MaxOperands operands, each
\* within its class, in every order of the moves.
Orders(S) == {o \in [1..Cardinality(S) -> S] :
                \A x \in S : \E k \in 1..Cardinality(S) : o[k] = x}
SameClass(f) == \A x \in DOMAIN f : x \in GeneralOperands <=>
                                    f[x] \in GeneralOperands

\* The gap resolver on a parallel move, and the code it has the code
\* generator emit.
AssembleParallelMove ==
  /\ phase = "lower"
  /\ \E S \in SUBSET GapOperands :
       /\ Cardinality(S) \in 1..MaxOperands
       /\ \E f \in Permutations(S), o \in Orders(S) :
            /\ SameClass(f)
            /\ instr' = [op |-> "parallel",
                         moves |-> [k \in 1..Cardinality(S) |->
                                      MoveOperands(f[o[k]], o[k])]]
            /\ code' = GapCode(gen, Resolve(instr'.moves)) \o Next1
  /\ phase' = "run"
  /\ UNCHANGED <<gen, m, m0, trace>>

NextGap ==
  \/ AssembleMove \/ AssembleSwap \/ AssembleParallelMove
  \/ Execute \/ Finish

SpecGap == InitGap /\ [][NextGap]_vars

\* C17: the code emitted for a parallel move that permutes at most four
\* operands leaves every destination holding the value its source held
\* before the code ran.
C17_ParallelMove ==
  (phase = "done" /\ instr.op = "parallel") =>
    \A k \in 1..Len(instr.moves) :
      ValueOf(m, instr.moves[k].destination)
        = ValueOf(m0, instr.moves[k].source)

\* A cycle through three operands with a stack slot among them was
\* resolved with swaps.
C17_Witness ==
  /\ phase = "done"
  /\ instr.op = "parallel"
  /\ Len(instr.moves) >= 3
  /\ \A k \in 1..Len(instr.moves) :
       /\ instr.moves[k].source # instr.moves[k].destination
       /\ ValueOf(m, instr.moves[k].destination)
            = ValueOf(m0, instr.moves[k].source)
  /\ \E k \in 1..Len(instr.moves) : IsStackSlot(instr.moves[k].source)
  /\ \E k \in 1..Len(trace) : trace[k].op = "lgr" /\ trace[k].a = kScratchReg

(***************************************************************************)
(* Opcodes without an implementation in the 64-bit build.                  *)
(***************************************************************************)
\* The opcodes of the model that have a case in the switch of
\* AssembleArchInstruction.
DispatchedOpcodes ==
  {"kS390_RotRight64", "kS390_RotLeftAndClear64", "kS390_Cntlz64",
   "kS390_Popcnt32", "kS390_Popcnt64", "kS390_DoubleToInt32",
   "kS390_DoubleToUint32", "kS390_DoubleToInt64", "kS390_DoubleToUint64"}

HasRegisterInput(i, index) == i.inputs[index + 1].kind = "Register"

ReachesFatal_ConvertsUnsigned(i) ==
  IF i.op \notin DispatchedOpcodes THEN TRUE
  ELSE CASE i.op = "kS390_RotRight64" -> ~HasRegisterInput(i, 1)
         [] i.op \in {"kS390_DoubleToInt32", "kS390_DoubleToUint32",
                      "kS390_DoubleToInt64"} ->
              i.op = "kS390_DoubleToInt64" /\ i.OutputCount > 1
         [] i.op \in {"kS390_RotLeftAndClear64", "kS390_Cntlz64",
                      "kS390_Popcnt64"} -> TRUE
         [] OTHER -> FALSE

\* AssembleArchInstruction reaches UNIMPLEMENTED() or, in the default case
\* of the switch, UNREACHABLE() before it emits anything.
ReachesFatal(i) ==
  IF i.op \notin DispatchedOpcodes THEN TRUE
  ELSE CASE i.op = "kS390_RotRight64" -> ~HasRegisterInput(i, 1)
         [] i.op \in {"kS390_DoubleToInt32", "kS390_DoubleToUint32",
                      "kS390_DoubleToInt64"} ->
              i.op = "kS390_DoubleToInt64" /\ i.OutputCount > 1
         [] i.op \in {"kS390_RotLeftAndClear64", "kS390_Cntlz64",
                      "kS390_Popcnt64", "kS390_DoubleToUint64"} -> TRUE
         [] OTHER -> FALSE

\* The code of the cases of these opcodes that emit some.
ArchInstructionCode(i) ==
  CASE i.op = "kS390_RotRight64" ->
         <<Ins("LoadComplementRR", kScratchReg, i.inputs[2].index, "-"),
           Ins("rll", i.out, i.inputs[1].index, <<kScratchReg, 32>>),
           Ins("lgfr", i.out, i.out, "-")>>
    [] i.op = "kS390_Popcnt32" ->
         <<Ins("Popcnt32", i.out, i.inputs[1].index, "-")>>
    [] i.op \in {"kS390_DoubleToInt32", "kS390_DoubleToUint32",
                 "kS390_DoubleToInt64"} ->
         <<Ins("ConvertDoubleToInt64", i.inputs[1].index, i.out,
               kScratchDoubleReg)>>
    [] i.op = "kS390_DoubleToUint64" ->
         <<Ins("ConvertDoubleToUnsignedInt64", i.inputs[1].index, i.out,
               kScratchDoubleReg)>>

\* The instructions of the model: each opcode with a register or an
\* immediate second input and one or two outputs.
ArchInstructions ==
  [op : DispatchedOpcodes \cup {"kArchOther"}, out : {"r2"},
   inputs : {<<Operand("Register", 3), Operand("Register", 4)>>,
             <<Operand("Register", 3), Operand("Immediate", 1)>>},
   OutputCount : 1..2]

\* CodeGenerator::AssembleArchInstruction for these opcodes; gen.items is
\* the number of code items before the instruction.
AssembleArchInstruction ==
  /\ phase = "lower"
  /\ gen.n < MaxStream
  /\ \E i \in ArchInstructions :
       /\ instr' = i
       /\ IF ReachesFatal(i)
          THEN code' = code /\ phase' = "fatal"
          ELSE code' = code \o ArchInstructionCode(i) /\ phase' = "lower"
  /\ gen' = [n |-> gen.n + 1, items |-> Len(code)]
  /\ UNCHANGED <<m, m0, trace>>

InitUnimplemented ==
  /\ gen = [n |-> 0, items |-> 0]
  /\ instr = [op |-> "none"]
  /\ code = <<>>
  /\ m = [pc |-> 1]
  /\ m0 = m
  /\ trace = <<>>
  /\ phase = "lower"

NextUnimplemented == AssembleArchInstruction

SpecUnimplemented == InitUnimplemented /\ [][NextUnimplemented]_vars

\* The opcodes without an implementation, and an opcode without a case.
Unimplemented ==
  \/ instr.op \in {"kS390_Cntlz64", "kS390_Popcnt64", "kS390_DoubleToUint64",
                   "kS390_RotLeftAndClear64"}
  \/ instr.op = "kS390_RotRight64" /\ instr.inputs[2].kind = "Immediate"
  \/ instr.op = "kS390_DoubleToInt64" /\ instr.OutputCount > 1
  \/ instr.op = "kArchOther"

\* C20: lowering an opcode without an implementation, or one without a
\* case in the dispatch, ends generation in the fatal state with no code
\* item emitted for it, and nothing is generated after the fatal state.
C20_UnimplementedIsFatal ==
  /\ [](gen.n > 0 =>
          /\ Unimplemented => (phase = "fatal" /\ Len(code) = gen.items)
          /\ phase = "fatal" => Unimplemented)
  /\ [][phase # "fatal"]_vars

C20_Witness ==
  /\ phase = "fatal"
  /\ gen.n = MaxStream
  /\ instr.op = "kS390_DoubleToUint64"
  /\ instr.OutputCount = 1
  /\ Len(code) = gen.items
  /\ Len(code) > 0

(***************************************************************************)
(* FlagsConditionToCondition as a table of (condition, opcode).            *)
(***************************************************************************)
\* The opcodes that add or subtract and may carry an overflow condition.
AddSubOpcodes ==
  {"kS390_Add", "kS390_Sub", "kS390_AddWithOverflow32",
   "kS390_SubWithOverflow32"}

\* The flag-setting opcodes of the lookup.
LookupOpcodes ==
  AddSubOpcodes \cup {"kS390_Cmp32", "kS390_Cmp64", "kS390_CmpDouble",
                      "kS390_Tst32", "kS390_Tst64"}

\* One call of FlagsConditionToCondition(condition, op); UNREACHABLE() ends
\* the lookup in the fatal state.
LookupCondition ==
  /\ phase = "lower"
  /\ LET cond == FlagsConditionToCondition(instr.flags_condition, instr.op)
     IN  IF cond = "kNoCondition"
         THEN gen' = gen /\ phase' = "fatal"
         ELSE gen' = [gen EXCEPT !.condition = cond] /\ phase' = "done"
  /\ UNCHANGED <<instr, code, m, m0, trace>>

InitCondition ==
  /\ instr \in [op : LookupOpcodes, flags_condition : FlagsConditions]
  /\ gen = [condition |-> "-"]
  /\ code = <<>>
  /\ m = [pc |-> 1]
  /\ m0 = m
  /\ trace = <<>>
  /\ phase = "lower"

NextCondition == LookupCondition

SpecCondition == InitCondition /\ [][NextCondition]_vars

\* C21: kOverflow and kNotOverflow are mapped to a condition only for the
\* add and subtract opcodes; for each of them the condition of kNotOverflow
\* is the negation of that of kOverflow; for every other opcode the lookup
\* ends in the fatal state.
C21_OverflowConditions ==
  (phase # "lower" /\ instr.flags_condition \in {"kOverflow", "kNotOverflow"})
    =>
    IF instr.op \in AddSubOpcodes
    THEN LET overflow == FlagsConditionToCondition("kOverflow", instr.op)
             not_overflow ==
               FlagsConditionToCondition("kNotOverflow", instr.op)
         IN  /\ phase = "done"
             /\ gen.condition
                  = (IF instr.flags_condition = "kOverflow" THEN overflow
                     ELSE not_overflow)
             /\ gen.condition \in {"eq", "ne", "lt", "ge"}
             /\ not_overflow = NegateCondition(overflow)
             /\ CondMask(overflow) \cap CondMask(not_overflow) = {}
             /\ {0, 1, 2} \subseteq CondMask(overflow) \cup CondMask(not_overflow)
    ELSE phase = "fatal" /\ gen.condition = "-"

C21_Witness ==
  /\ phase = "done"
  /\ instr.op = "kS390_SubWithOverflow32"
  /\ instr.flags_condition = "kNotOverflow"
  /\ gen.condition = "eq"

(***************************************************************************)
(* Lookup switch.                                                          *)
(***************************************************************************)
\* Largest number of (value, target) pairs of a lookup switch.
MaxPairs == 2

\* CodeGenerator::IsNextInAssemblyOrder: next is the block that follows the
\* current one in assembly order.
IsNextInAssemblyOrder(next, target) == target = next

\* CodeGenerator::AssembleArchJump
ArchJumpCode(next, target) ==
  IF ~IsNextInAssemblyOrder(next, target)
  THEN <<Ins("b", "al", "-", GetLabel(target))>> ELSE <<>>

LookupSwitch_LastFirst(i) ==
  LET n == Len(i.pairs)
      Chain == [k \in 1..(2 * n) |->
                  IF k % 2 = 1
                  THEN Ins("CmpP_i", i.in0, "-", i.pairs[n - k \div 2].value)
                  ELSE Ins("b", "eq", "-",
                           GetLabel(i.pairs[n + 1 - k \div 2].target))]
  IN  Chain \o ArchJumpCode(i.next, i.default)

\* The code of CodeGenerator::AssembleArchLookupSwitch: the pairs are
\* inputs 2.. of the instruction, the default block is input 1.
ArchLookupSwitchCode(i) ==
  LET n == Len(i.pairs)
      Chain == [k \in 1..(2 * n) |->
                  IF k % 2 = 1
                  THEN Ins("CmpP_i", i.in0, "-", i.pairs[(k + 1) \div 2].value)
                  ELSE Ins("b", "eq", "-",
                           GetLabel(i.pairs[k \div 2].target))]
  IN  Chain \o ArchJumpCode(i.next, i.default)

\* The basic blocks after the switch, the next in assembly order first.
BlocksAfter(next) ==
  LET rest == Blocks \ {next}
      order == CHOOSE o \in [1..Cardinality(rest) -> rest] :
                 \A j, k \in 1..Cardinality(rest) : j < k => o[j] < o[k]
  IN  <<Ins("block", GetLabel(next), "-", "-")>>
      \o [k \in 1..Cardinality(rest) |->
            Ins("block", GetLabel(order[k]), "-", "-")]

AssembleArchLookupSwitch ==
  /\ phase = "lower"
  /\ instr.op = "kArchLookupSwitch"
  /\ code' = ArchLookupSwitchCode(instr) \o BlocksAfter(instr.next)
  /\ phase' = "run"
  /\ UNCHANGED <<instr, gen, m, m0, trace>>

LookupValues == {0 - 1, 0, 1}
LookupInputs == {0, 1, 2, HalfMod - 1, RegMod - 1}

InitLookup ==
  /\ instr \in [op : {"kArchLookupSwitch"}, in0 : {"r2"}, default : Blocks,
                next : Blocks,
                pairs : SeqsUpTo([value : LookupValues, target : Blocks],
                                 MaxPairs)]
  /\ \E v \in LookupInputs :
       m = [R |-> [x \in AllocRegs \cup ScratchRegs |->
                     IF x = instr.in0 THEN v ELSE RegMod - 2],
            mem |-> <<>>, cc |-> 0, pc |-> 1]
  /\ m0 = m
  /\ gen = NoGen
  /\ code = <<>>
  /\ trace = <<>>
  /\ phase = "lower"

NextLookup == AssembleArchLookupSwitch \/ Execute \/ Finish

SpecLookup == InitLookup /\ [][NextLookup]_vars

\* The pairs whose value equals the input register.
Matching ==
  {k \in 1..Len(instr.pairs) :
     instr.pairs[k].value = Signed(m0.R[instr.in0], RegBits)}

\* C22: a lookup switch sends control to the target of the first pair whose
\* value equals the input register, and to the default target when none
\* does: by a jump, or by falling through when the default block is the
\* next in assembly order.
C22_LookupSwitch ==
  (phase = "done" /\ instr.op = "kArchLookupSwitch") =>
    IF Matching # {}
    THEN LET first == CHOOSE k \in Matching : \A j \in Matching : k <= j
         IN  /\ AtBlock(instr.pairs[first].target)
             /\ trace[Len(trace)] =
                  Ins("b", "eq", "-", GetLabel(instr.pairs[first].target))
             /\ Len(trace) = 2 * first
    ELSE /\ AtBlock(instr.default)
         /\ Len(trace) = 2 * Len(instr.pairs)
                           + (IF instr.default = instr.next THEN 0 ELSE 1)
         /\ instr.default # instr.next =>
              trace[Len(trace)] = Ins("b", "al", "-", GetLabel(instr.default))
         /\ instr.default = instr.next => m.pc =
              2 * Len(instr.pairs) + 1

C22_Witness ==
  /\ phase = "done"
  /\ instr.op = "kArchLookupSwitch"
  /\ Len(instr.pairs) = 2
  /\ instr.pairs[1].value = instr.pairs[2].value
  /\ instr.pairs[1].target # instr.pairs[2].target
  /\ Matching = {1, 2}
  /\ AtBlock(instr.pairs[1].target)

(***************************************************************************)
(* Rounding of doubles to integral values.                                 *)
(***************************************************************************)
RoundDouble_ToEven(i) ==
  CASE i.op = "kS390_FloorDouble" ->
         <<Ins("FloatFloor64", i.out, i.in0, kScratchReg)>>
    [] i.op = "kS390_CeilDouble" ->
         <<Ins("FloatCeiling64", i.out, i.in0, kScratchReg)>>
    [] i.op = "kS390_TruncateDouble" ->
         <<Ins("fidbra", i.out, i.in0, "FIDBRA_ROUND_TOWARD_0")>>
    [] i.op = "kS390_RoundDouble" ->
         <<Ins("fidbra", i.out, i.in0, "FIDBRA_ROUND_TO_NEAREST_TO_EVEN")>>

\* The cases kS390_FloorDouble, kS390_CeilDouble, kS390_TruncateDouble and
\* kS390_RoundDouble.
RoundDoubleCode(i) ==
  CASE i.op = "kS390_FloorDouble" ->
         <<Ins("FloatFloor64", i.out, i.in0, kScratchReg)>>
    [] i.op = "kS390_CeilDouble" ->
         <<Ins("FloatCeiling64", i.out, i.in0, kScratchReg)>>
    [] i.op = "kS390_TruncateDouble" ->
         <<Ins("fidbra", i.out, i.in0, "FIDBRA_ROUND_TOWARD_0")>>
    [] i.op = "kS390_RoundDouble" ->
         <<Ins("fidbra", i.out, i.in0,
               "FIDBRA_ROUND_TO_NEAREST_AWAY_FROM_0")>>

RoundDoubleOps ==
  {"kS390_FloorDouble", "kS390_CeilDouble", "kS390_TruncateDouble",
   "kS390_RoundDouble"}

AssembleRoundDouble ==
  /\ phase = "lower"
  /\ instr.op \in RoundDoubleOps
  /\ code' = RoundDoubleCode(instr) \o Next1
  /\ phase' = "run"
  /\ UNCHANGED <<instr, gen, m, m0, trace>>

\* Doubles at, next to and between the integers, of both signs.
RoundSamples ==
  {quiet_NaN, <<1, 0>>, <<0 - 1, 0>>}
    \cup {Norm(n, 4) : n \in (0 - 10)..10}

InitRound ==
  /\ instr \in [op : RoundDoubleOps, out : {"d1", "d2"}, in0 : {"d1"}]
  /\ \E x \in RoundSamples :
       m = [R |-> [r \in {kScratchReg} |-> RegMod - 2],
            D |-> [d \in {"d1", "d2"} |-> IF d = "d1" THEN x ELSE <<7, 1>>],
            pc |-> 1]
  /\ m0 = m
  /\ gen = NoGen
  /\ code = <<>>
  /\ trace = <<>>
  /\ phase = "lower"

NextRound == AssembleRoundDouble \/ Execute \/ Finish

SpecRound == InitRound /\ [][NextRound]_vars

\* The input and the integral result of the rounding, and the result's
\* distance from the input in units of 1 / (2 * denominator).
RoundInput == m0.D[instr.in0]
RoundResult == m.D[instr.out][1]
RoundError == 2 * Abs(RoundResult * RoundInput[2] - RoundInput[1])
Rounded ==
  /\ phase = "done"
  /\ instr.op \in RoundDoubleOps
  /\ RoundInput[2] # 0

\* Floor, ceiling and truncation give the integer the mode names.
DirectedRounding ==
  /\ m.D[instr.out][2] = 1
  /\ instr.op = "kS390_FloorDouble" =>
       /\ RoundResult * RoundInput[2] <= RoundInput[1]
       /\ RoundInput[1] < (RoundResult + 1) * RoundInput[2]
  /\ instr.op = "kS390_CeilDouble" =>
       /\ (RoundResult - 1) * RoundInput[2] < RoundInput[1]
       /\ RoundInput[1] <= RoundResult * RoundInput[2]
  /\ instr.op = "kS390_TruncateDouble" =>
       /\ RoundResult * RoundInput[1] >= 0
       /\ Abs(RoundResult) * RoundInput[2] <= Abs(RoundInput[1])
       /\ Abs(RoundInput[1]) < (Abs(RoundResult) + 1) * RoundInput[2]

\* C23 as stated: TruncateDouble rounds toward zero, FloorDouble down,
\* CeilDouble up, and RoundDouble to the nearest integer, a tie to the even
\* one.
C23_RoundToEven ==
  Rounded =>
    /\ DirectedRounding
    /\ instr.op = "kS390_RoundDouble" =>
         /\ RoundError <= RoundInput[2]
         /\ RoundError = RoundInput[2] => RoundResult % 2 = 0

\* C23: TruncateDouble rounds toward zero, FloorDouble down, CeilDouble up,
\* and RoundDouble to the nearest integer, a tie away from zero; a NaN or
\* an infinity is the result unchanged.
C23_RoundingModes ==
  /\ Rounded =>
       /\ DirectedRounding
       /\ instr.op = "kS390_RoundDouble" =>
            /\ RoundError <= RoundInput[2]
            /\ RoundError = RoundInput[2] =>
                 Abs(RoundResult) * RoundInput[2] > Abs(RoundInput[1])
  /\ (phase = "done" /\ instr.op \in RoundDoubleOps /\ RoundInput[2] = 0) =>
       m.D[instr.out] = RoundInput

C23_Witness ==
  /\ Rounded
  /\ instr.op = "kS390_RoundDouble"
  /\ RoundInput = <<5, 2>>
  /\ RoundResult = 3

(***************************************************************************)
(* Integer division and remainder through the register pair r0:r1.         *)
(***************************************************************************)
\* ASSEMBLE_MODULO(div_instr, shift_instr); Operand(32) is the width of a
\* half register.
ASSEMBLE_MODULO(div_instr, shift_instr, i) ==
  <<Ins("lgr", "r0", i.in0, "-"),
    Ins(shift_instr, "r0", "-", HalfBits),
    Ins(div_instr, "r0", i.in1, "-"),
    Ins("ltr", i.out, "r0", "-")>>

\* The cases kS390_Div32, kS390_Div64 (one lowering) and kS390_DivU32,
\* kS390_DivU64 (one lowering).
kS390_Div(i) ==
  <<Ins("lgr", "r0", i.in0, "-"),
    Ins(IF i.op \in {"kS390_Div32", "kS390_Div64"} THEN "srda" ELSE "srdl",
        "r0", "-", HalfBits),
    Ins(IF i.op \in {"kS390_Div32", "kS390_Div64"} THEN "dr" ELSE "dlr",
        "r0", i.in1, "-"),
    Ins("ltr", i.out, "r1", "-")>>

\* The cases kS390_Mod32, kS390_ModU32, kS390_Mod64 and kS390_ModU64.
kS390_Mod(i) ==
  IF i.op \in {"kS390_Mod32", "kS390_Mod64"}
  THEN ASSEMBLE_MODULO("dr", "srda", i)
  ELSE ASSEMBLE_MODULO("dlr", "srdl", i)

DivOps == {"kS390_Div32", "kS390_Div64", "kS390_DivU32", "kS390_DivU64"}
ModOps == {"kS390_Mod32", "kS390_Mod64", "kS390_ModU32", "kS390_ModU64"}
Wide == {"kS390_Div64", "kS390_DivU64", "kS390_Mod64", "kS390_ModU64"}
SignedDivMod ==
  {"kS390_Div32", "kS390_Div64", "kS390_Mod32", "kS390_Mod64"}

AssembleDivMod ==
  /\ phase = "lower"
  /\ instr.op \in DivOps \cup ModOps
  /\ code' = (IF instr.op \in DivOps THEN kS390_Div(instr)
              ELSE kS390_Mod(instr)) \o Next1
  /\ phase' = "run"
  /\ UNCHANGED <<instr, gen, m, m0, trace>>

\* Operand values: small ones, the extremes of the half and of the whole
\* register, and values that need more than the low half.
DivSamples ==
  {0, 1, 2, 3, HalfMod \div 2 - 1, HalfMod \div 2, HalfMod - 1, HalfMod,
   HalfMod + 3, RegMod \div 2, RegMod - 3, RegMod - 1}

InitDivMod ==
  /\ instr \in [op : DivOps \cup ModOps, out : {"r2", "r4"}, in0 : {"r2"},
                in1 : {"r3"}]
  /\ \E a \in DivSamples, b \in DivSamples :
       m = [R |-> [r \in {"r2", "r3", "r4", "r0", "r1", kScratchReg} |->
                     CASE r = "r2" -> a
                       [] r = "r3" -> b
                       [] OTHER -> RegMod - 2],
            cc |-> 0, pc |-> 1]
  /\ m0 = m
  /\ gen = NoGen
  /\ code = <<>>
  /\ trace = <<>>
  /\ phase = "lower"

NextDivMod == AssembleDivMod \/ Execute \/ Finish

SpecDivMod == InitDivMod /\ [][NextDivMod]_vars

\* The operands at the opcode's width, read signed or unsigned as the
\* opcode says, and the result the opcode stands for.
DivWidth == IF instr.op \in Wide THEN RegBits ELSE HalfBits
DivOperand(r) ==
  IF instr.op \in SignedDivMod
  THEN Signed(m0.R[r] % Pow2(DivWidth), DivWidth)
  ELSE m0.R[r] % Pow2(DivWidth)
DivExpected ==
  Unsigned(IF instr.op \in DivOps
           THEN TruncDiv(DivOperand(instr.in0), DivOperand(instr.in1))
           ELSE TruncRem(DivOperand(instr.in0), DivOperand(instr.in1)),
           DivWidth)

\* The result is in the output register, and was taken from the pair the
\* dividend was put into.
DivModCorrect ==
  /\ m.pc = Len(code)
  /\ m.R[instr.out] % Pow2(DivWidth) = DivExpected
  /\ trace[1] = Ins("lgr", "r0", instr.in0, "-")
  /\ trace[3].op \in {"dr", "dlr"} /\ trace[3].a = "r0"
  /\ trace[4].op = "ltr"
  /\ trace[4].b = (IF instr.op \in DivOps THEN "r1" ELSE "r0")

\* C24: the divide and remainder opcodes of both widths leave, for every
\* non-zero divisor, the quotient or the remainder of input 0 by input 1 in
\* the output register, signed or unsigned as the opcode says, through the
\* register pair r0:r1.
C24_DivMod ==
  (phase = "done" /\ instr.op \in DivOps \cup ModOps
     /\ DivOperand(instr.in1) # 0) => DivModCorrect

\* The opcodes of the width of a half register, where the quotient fits
\* that width.
DivMod32Correct ==
  (phase = "done" /\ instr.op \in (DivOps \cup ModOps) \ Wide
     /\ DivOperand(instr.in1) # 0
     /\ ~(instr.op \in SignedDivMod
            /\ DivOperand(instr.in0) = 0 - HalfMod \div 2
            /\ DivOperand(instr.in1) = 0 - 1)) => DivModCorrect

(***************************************************************************)
(* Store with write barrier.                                               *)
(***************************************************************************)
\* The case kArchStoreWithWriteBarrier, given the out-of-line object it
\* creates.
ArchStoreWithWriteBarrierCode(i, ool) ==
  <<Ins("StoreP", i.in2, i.in0, i.in1),
    Ins("CheckPageFlag", <<i.in0, i.temp0>>,
        <<kPointersFromHereAreInterestingMask, "ne">>, ool.entry),
    Ins("bind", ool.exit, "-", "-")>>

AssembleArchStoreWithWriteBarrier ==
  /\ phase = "lower"
  /\ instr.op = "kArchStoreWithWriteBarrier"
  /\ LET ool == OutOfLineRecordWrite(gen.frame, instr.in0, instr.in1,
                                     instr.in2, instr.temp0, instr.temp1,
                                     instr.mode, Len(gen.ools) + 1)
     IN  /\ code' = ArchStoreWithWriteBarrierCode(instr, ool) \o Next1
         /\ gen' = [gen EXCEPT !.ools = Append(@, ool)]
  /\ phase' = "ool"
  /\ UNCHANGED <<instr, m, m0, trace>>

\* Tagged pointers to objects on pages 1 and 2, field offsets (untagged),
\* and values: Smis and tagged pointers.
ObjectSamples == {Pow2(kPageSizeBits) + 1, 2 * Pow2(kPageSizeBits) + 9}
FieldOffsets == {kPointerSize - 1, 2 * kPointerSize - 1}
PointerValues == {Pow2(kPageSizeBits) + 17, 2 * Pow2(kPageSizeBits) + 25}
SmiValues == {0, 2 * Pow2(kPageSizeBits) + 6}
PageFlagSets ==
  SUBSET {kPointersFromHereAreInterestingMask,
          kPointersToHereAreInterestingMask}

InitWriteBarrier ==
  /\ instr \in [op : {"kArchStoreWithWriteBarrier"},
                mode : {RecordWriteModes[k] : k \in 1..3},
                in0 : {"r2"}, in1 : {"r3"}, in2 : {"r4"},
                temp0 : {"r5"}, temp1 : {"r6"}]
  /\ \E object \in ObjectSamples, offset \in FieldOffsets,
        value \in PointerValues \cup SmiValues, f1 \in PageFlagSets,
        f2 \in PageFlagSets :
       /\ IsSmi(value) => instr.mode = "kValueIsAny"
       /\ m = [R |-> [r \in {"r2", "r3", "r4", "r5", "r6", "r0", "r1",
                             kScratchReg} |->
                        CASE r = "r2" -> object
                          [] r = "r3" -> offset
                          [] r = "r4" -> value
                          [] OTHER -> RegMod - 2],
               flags |-> [p \in 0..3 |-> CASE p = 1 -> f1
                                           [] p = 2 -> f2
                                           [] OTHER -> {}],
               mem |-> <<>>, acc |-> <<>>, cc |-> 0, pc |-> 1]
  /\ m0 = m
  /\ gen \in [ools : {<<>>}, emitted : {0},
              frame : [DidAllocateDoubleRegisters : BOOLEAN]]
  /\ code = <<>>
  /\ trace = <<>>
  /\ phase = "lower"

NextWriteBarrier ==
  \/ AssembleArchStoreWithWriteBarrier \/ AssembleOutOfLineCode
  \/ FinishOutOfLine \/ Execute \/ Finish

SpecWriteBarrier == InitWriteBarrier /\ [][NextWriteBarrier]_vars

\* The object, the value, their pages' flags and the field address on
\* entry.
BarrierObject == m0.R[instr.in0]
BarrierValue == m0.R[instr.in2]
FieldAddress == (BarrierObject + m0.R[instr.in1]) % RegMod
ObjectInteresting ==
  kPointersFromHereAreInterestingMask \in m0.flags[PageOf(BarrierObject)]
ValueInteresting ==
  kPointersToHereAreInterestingMask \in m0.flags[PageOf(BarrierValue)]
StubSkipped ==
  \/ instr.mode = "kValueIsAny" /\ IsSmi(BarrierValue)
  \/ instr.mode # "kValueIsMap" /\ ~ValueInteresting
EnteredOutOfLine ==
  \E k \in 1..Len(trace) :
    trace[k].op = "bind" /\ trace[k].a = gen.ools[1].entry
StubCalls == SelectSeq(m.acc, LAMBDA a : a.kind = "record_write")

\* C25: the store is the first instruction executed and precedes the check;
\* the out-of-line code is entered exactly when the object's page has the
\* pointers-from-here-are-interesting flag; there the stub is skipped
\* exactly when the mode allows a Smi and the value is one, or the mode is
\* beyond value-is-map and the value's page is not interesting; both paths
\* end at the exit label, which is bound right after the check.
C25_WriteBarrier ==
  (phase = "done" /\ instr.op = "kArchStoreWithWriteBarrier") =>
    /\ trace[1] = Ins("StoreP", instr.in2, instr.in0, instr.in1)
    /\ trace[2].op = "CheckPageFlag"
    /\ m.mem[FieldAddress] = IntCell(BarrierValue)
    /\ code[3] = Ins("bind", gen.ools[1].exit, "-", "-")
    /\ EnteredOutOfLine <=> ObjectInteresting
    /\ Len(StubCalls) = (IF ObjectInteresting /\ ~StubSkipped THEN 1 ELSE 0)
    /\ \A k \in 1..Len(StubCalls) :
         /\ StubCalls[k].addr = FieldAddress
         /\ StubCalls[k].bits = BarrierObject
    /\ trace[Len(trace)] = code[3]
    /\ EnteredOutOfLine =>
         /\ trace[Len(trace) - 1].c = gen.ools[1].exit
         /\ trace[Len(trace) - 1].op \in {"b", "JumpIfSmi", "CheckPageFlag"}
    /\ m.pc = 4
    /\ m.R[instr.in0] = BarrierObject /\ m.R[instr.in2] = BarrierValue

\* The record-write stub was called for a pointer stored under mode
\* kValueIsAny.
C25_Witness ==
  /\ phase = "done" /\ instr.op = "kArchStoreWithWriteBarrier"
  /\ instr.mode = "kValueIsAny" /\ ~IsSmi(BarrierValue)
  /\ Len(StubCalls) = 1
  /\ EnteredOutOfLine

\* A Smi stored into an object on an interesting page: the out-of-line code
\* was entered and left without the stub.
SmiSkipsStub ==
  /\ phase = "done" /\ instr.op = "kArchStoreWithWriteBarrier"
  /\ IsSmi(BarrierValue) /\ ValueInteresting /\ EnteredOutOfLine
  /\ Len(StubCalls) = 0

(***************************************************************************)
(* General registers an instruction's code may write.                      *)
(***************************************************************************)
\* The general registers other than the instruction's output and the
\* reserved scratch registers; these opcodes declare no temporaries.
PreservedRegs == (DOMAIN m.R) \ ({instr.out} \cup ScratchRegs)
Changed == {r \in DOMAIN m.R : m.R[r] # m0.R[r]}

\* C26: the code of an integer opcode or of a bounds-checked memory access
\* leaves every general register other than the output register and the
\* reserved scratch registers ip, r0 and r1 as it was; so the inputs of
\* the complement opcodes and the offset register of a checked access.
C26_InputsPreserved ==
  (phase = "done"
     /\ instr.op \in ComplementOps \cup ShiftOps \cup CheckedOps) =>
    Changed \cap PreservedRegs = {}

\* The same with the two registers the code is seen to rewrite set aside:
\* input 1 of a complement opcode and the offset register of a checked
\* access.
OnlyRewrittenInputsChange ==
  (phase = "done"
     /\ instr.op \in ComplementOps \cup ShiftOps \cup CheckedOps) =>
    Changed \cap PreservedRegs \subseteq
      (IF instr.op \in ShiftOps THEN {} ELSE {instr.in1})

(***************************************************************************)
(* Return sites of a function with a frame.                                *)
(***************************************************************************)
\* The code of the k-th return site: from its label to the next site's
\* label or the end of the code.
ReturnStart(k) == LabelPos(code, ReturnSite(k))
ReturnEnd(k) ==
  IF k < instr.returns THEN LabelPos(code, ReturnSite(k + 1)) - 1
  ELSE Len(code)
ReturnSiteCode(k) == SubSeq(code, ReturnStart(k) + 1, ReturnEnd(k))

CountOf(seq, op) == Len(SelectSeq(seq, LAMBDA i : i.op = op))

\* The pops of the callee-saved registers every return site begins with.
CalleeSavedPops ==
  (IF instr.saves # {}
   THEN <<Ins("MultiPop", instr.saves, "-", "-")>> ELSE <<>>)
    \o (IF instr.double_saves # {}
        THEN <<Ins("MultiPopDoubles", instr.double_saves, "-", "-")>>
        ELSE <<>>)

\* C27: in a function that is no C function and needs its frame, the first
\* return site binds the return label and holds the only LeaveFrame and the
\* only Ret; every later site is its pops of the callee-saved registers and
\* a branch to the return label; every executed return pops the
\* callee-saved registers once and tears the frame down once.
C27_SharedReturn ==
  (phase \in {"run", "done"} /\ instr.kind \in {"JSFunction", "Stub"}
     /\ needs_frame(gen.frame)) =>
    /\ CountOf(code, "LeaveFrame") = 1
    /\ CountOf(code, "Ret") = 1
    /\ ReturnSiteCode(1) =
         CalleeSavedPops
           \o <<Ins("bind", return_label, "-", "-"),
                Ins("LeaveFrame", "MANUAL", "-",
                    instr.pop_count * kPointerSize),
                Ins("Ret", "-", "-", "-")>>
    /\ \A k \in 2..instr.returns :
         ReturnSiteCode(k) = CalleeSavedPops \o <<Ins("b", "al", "-", return_label)>>
    /\ phase = "done" =>
         /\ CountOf(trace, "MultiPop") = (IF instr.saves # {} THEN 1 ELSE 0)
         /\ CountOf(trace, "MultiPopDoubles") =
              (IF instr.double_saves # {} THEN 1 ELSE 0)
         /\ CountOf(trace, "LeaveFrame") = 1
         /\ CountOf(trace, "Ret") = 1

\* A JS function with callee-saved registers returned through its last
\* return site, which branches to the return label of the first.
C27_Witness ==
  /\ phase = "done" /\ instr.kind = "JSFunction"
  /\ instr.returns = MaxReturns /\ instr.site = MaxReturns
  /\ instr.saves # {} /\ instr.double_saves # {}
  /\ \E k \in 1..Len(trace) - 1 :
       /\ trace[k].op = "b" /\ trace[k].c = return_label
       /\ trace[k + 1].op = "bind" /\ trace[k + 1].a = return_label
  /\ CountOf(trace, "LeaveFrame") = 1

(***************************************************************************)
(* Subtract with overflow check and an immediate second operand.           *)
(***************************************************************************)
InitSubImmediate ==
  /\ instr \in [op : {"kS390_Sub"}, out : {"r2", "r4"}, outs : {<<"r5">>},
                in0 : {"r2"}, in1 : {"-"}, reg1 : {FALSE},
                imm1 : Int32Values,
                flags_mode : {"kFlags_set", "kFlags_branch"},
                flags_condition : {"kOverflow", "kNotOverflow"},
                tblock : {1}, fblock : {2}, fallthru : BOOLEAN]
  /\ instr.flags_mode = "kFlags_set" => instr.fallthru
  /\ \E a \in CompareIntSamples \cup {HalfMod \div 2 + 1, RegMod \div 2 + 2} :
       m = [R |-> [r \in {"r2", "r3", "r4", "r5", "r0", kScratchReg} |->
                     CASE r = "r2" -> a
                       [] OTHER -> RegMod - 2],
            mem |-> <<>>, acc |-> <<>>, cc |-> 0, pc |-> 1]
  /\ m0 = m
  /\ gen = NoGen
  /\ code = <<>>
  /\ trace = <<>>
  /\ phase = "lower"

SpecSubImmediate == InitSubImmediate /\ [][NextFlags]_vars

\* The exact difference of the first operand, a signed register value, and
\* the immediate.
ExactDifference == Signed(m0.R[instr.in0], RegBits) - instr.imm1
DifferenceOverflows ==
  ExactDifference \notin (0 - RegMod \div 2)..(RegMod \div 2 - 1)

SubImmediateCorrect ==
  /\ m.R[instr.out] = Unsigned(ExactDifference, RegBits)
  /\ (m.cc \in CondMask(FlagsConditionToCondition("kOverflow", instr.op)))
       = DifferenceOverflows
  /\ instr.flags_mode = "kFlags_branch" =>
       AtBlock(IF (instr.flags_condition = "kOverflow") = DifferenceOverflows
               THEN instr.tblock ELSE instr.fblock)

\* C28: a subtract with overflow check and an immediate second operand
\* leaves the difference of the first operand and the immediate in the
\* output register, and the overflow outcome of that subtraction, for
\* every first operand and every 32-bit immediate, the minimum -2^31
\* included.
C28_SubImmediate ==
  (phase = "done" /\ instr.op = "kS390_Sub" /\ ~HasRegisterInput1(instr)
     /\ instr.flags_mode # "kFlags_none") => SubImmediateCorrect

\* The same for the immediates whose negation is a 32-bit value.
SubImmediateAboveMinimum ==
  (phase = "done" /\ instr.op = "kS390_Sub" /\ ~HasRegisterInput1(instr)
     /\ instr.flags_mode # "kFlags_none"
     /\ instr.imm1 # 0 - HalfMod \div 2) => SubImmediateCorrect

(***************************************************************************)
(* Load elimination: LoadElimination::ReduceLoadField on an effect chain.  *)
(***************************************************************************)
\* Nodes are numbered; a node off the effect chain (a parameter) has a
\* negative number.  A node has an opcode, value inputs 0 and 1, a field
\* access, its effect inputs and the kNoWrite property of its operator.
MaxChain == 3
Parameters == {0 - 1, 0 - 2}
FieldAccesses == {"f1", "f2"}
Node(opcode, value0, value1, access, effects, nowrite) ==
  [opcode |-> opcode, value0 |-> value0, value1 |-> value1,
   access |-> access, effects |-> effects, nowrite |-> nowrite]

\* The operators: Start has no effect input, an EffectPhi one per merged
\* path, every other operator of the chain exactly one; Call stands for
\* the operators that may write, Checkpoint for those that may not.
StartNode == Node("Start", 0, 0, "-", <<>>, TRUE)
ChainIds == 2..MaxChain + 1
ValueNodes == Parameters \cup ChainIds
NodeKinds ==
  [opcode : {"LoadField"}, value0 : ValueNodes, value1 : {0},
   access : FieldAccesses, phi : {0}, nowrite : {TRUE}]
    \cup [opcode : {"StoreField"}, value0 : ValueNodes, value1 : {0 - 3},
          access : FieldAccesses, phi : {0}, nowrite : {FALSE}]
    \cup [opcode : {"FinishRegion"}, value0 : ValueNodes, value1 : {0},
          access : {"-"}, phi : {0}, nowrite : {FALSE}]
    \cup [opcode : {"Checkpoint"}, value0 : {0}, value1 : {0},
          access : {"-"}, phi : {0}, nowrite : {TRUE}]
    \cup [opcode : {"BeginRegion", "Allocate", "StoreBuffer", "StoreElement",
                    "Call"},
          value0 : {0}, value1 : {0}, access : {"-"}, phi : {0},
          nowrite : {FALSE}]
    \cup [opcode : {"EffectPhi"}, value0 : {0}, value1 : {0},
          access : {"-"}, phi : {0, MaxChain + 1}, nowrite : {TRUE}]

\* The node of a kind at place id of the chain: its effect input is the
\* node before it; an EffectPhi of a loop has the back edge as well.
ChainNode(id, kind) ==
  Node(kind.opcode, kind.value0, kind.value1, kind.access,
       IF kind.phi = 0 THEN <<id - 1>> ELSE <<id - 1, kind.phi>>,
       kind.nowrite)

\* NodeProperties::GetEffectInput(node) and GetValueInput(node, 0).
EffectInputCount(n) == Len(code[n].effects)
GetEffectInput(n) == code[n].effects[1]
GetValueInput0(n) == code[n].value0

\* What one turn of the loop of ReduceLoadField does at the node effect:
\* a reduction, or the walk goes on, with the object it looks for.
LoadField_SameAccessOnly(effect, object, access) ==
  LET e == code[effect]
  IN  CASE e.opcode = "LoadField" ->
             IF access = e.access
             THEN [reduction |-> "Replace", value |-> effect,
                   object |-> object]
             ELSE [reduction |-> "-", value |-> 0, object |-> object]
        [] e.opcode = "StoreField" ->
             IF access = e.access
             THEN (IF object = e.value0
                   THEN [reduction |-> "Replace", value |-> e.value1,
                         object |-> object]
                   ELSE [reduction |-> "NoChange", value |-> 0,
                         object |-> object])
             ELSE [reduction |-> "-", value |-> 0, object |-> object]
        [] e.opcode \in {"BeginRegion", "StoreBuffer", "StoreElement"} ->
             [reduction |-> "-", value |-> 0, object |-> object]
        [] e.opcode = "FinishRegion" ->
             [reduction |-> "-", value |-> 0,
              object |-> IF object = effect THEN e.value0 ELSE object]
        [] e.opcode = "Allocate" ->
             IF object = effect
             THEN [reduction |-> "NoChange", value |-> 0, object |-> object]
             ELSE [reduction |-> "-", value |-> 0, object |-> object]
        [] OTHER ->
             IF ~e.nowrite \/ Len(e.effects) # 1
             THEN [reduction |-> "NoChange", value |-> 0, object |-> object]
             ELSE [reduction |-> "-", value |-> 0, object |-> object]

ReduceLoadField_WriteOnly(effect, object, access) ==
  LET e == code[effect]
  IN  CASE e.opcode = "LoadField" ->
             IF object = e.value0 /\ access = e.access
             THEN [reduction |-> "Replace", value |-> effect,
                   object |-> object]
             ELSE [reduction |-> "-", value |-> 0, object |-> object]
        [] e.opcode = "StoreField" ->
             IF access = e.access
             THEN (IF object = e.value0
                   THEN [reduction |-> "Replace", value |-> e.value1,
                         object |-> object]
                   ELSE [reduction |-> "NoChange", value |-> 0,
                         object |-> object])
             ELSE [reduction |-> "-", value |-> 0, object |-> object]
        [] e.opcode \in {"BeginRegion", "StoreBuffer", "StoreElement"} ->
             [reduction |-> "-", value |-> 0, object |-> object]
        [] e.opcode = "FinishRegion" ->
             [reduction |-> "-", value |-> 0,
              object |-> IF object = effect THEN e.value0 ELSE object]
        [] e.opcode = "Allocate" ->
             IF object = effect
             THEN [reduction |-> "NoChange", value |-> 0, object |-> object]
             ELSE [reduction |-> "-", value |-> 0, object |-> object]
        [] OTHER ->
             IF ~e.nowrite
             THEN [reduction |-> "NoChange", value |-> 0, object |-> object]
             ELSE [reduction |-> "-", value |-> 0, object |-> object]

ReduceLoadFieldAt(effect, object, access) ==
  LET e == code[effect]
  IN  CASE e.opcode = "LoadField" ->
             IF object = e.value0 /\ access = e.access
             THEN [reduction |-> "Replace", value |-> effect,
                   object |-> object]
             ELSE [reduction |-> "-", value |-> 0, object |-> object]
        [] e.opcode = "StoreField" ->
             IF access = e.access
             THEN (IF object = e.value0
                   THEN [reduction |-> "Replace", value |-> e.value1,
                         object |-> object]
                   ELSE [reduction |-> "NoChange", value |-> 0,
                         object |-> object])
             ELSE [reduction |-> "-", value |-> 0, object |-> object]
        [] e.opcode \in {"BeginRegion", "StoreBuffer", "StoreElement"} ->
             [reduction |-> "-", value |-> 0, object |-> object]
        [] e.opcode = "FinishRegion" ->
             [reduction |-> "-", value |-> 0,
              object |-> IF object = effect THEN e.value0 ELSE object]
        [] e.opcode = "Allocate" ->
             IF object = effect
             THEN [reduction |-> "NoChange", value |-> 0, object |-> object]
             ELSE [reduction |-> "-", value |-> 0, object |-> object]
        [] OTHER ->
             IF ~e.nowrite \/ Len(e.effects) # 1
             THEN [reduction |-> "NoChange", value |-> 0, object |-> object]
             ELSE [reduction |-> "-", value |-> 0, object |-> object]

\* LoadElimination::Reduce: a LoadField enters ReduceLoadField, which
\* reads its access, its object and its effect input; any other node is
\* left unchanged.
Reduce ==
  /\ phase = "reduce"
  /\ IF code[instr.node].opcode = "LoadField"
     THEN /\ m' = [effect |-> GetEffectInput(instr.node),
                   object |-> GetValueInput0(instr.node),
                   access |-> code[instr.node].access]
          /\ phase' = "walk"
          /\ gen' = gen
     ELSE /\ gen' = [reduction |-> "NoChange", value |-> 0]
          /\ phase' = "done"
          /\ m' = m
  /\ UNCHANGED <<instr, code, m0, trace>>

\* One turn of the loop: the switch on the opcode of effect and, unless it
\* returns, the step to the effect input of effect.  Reading the effect
\* input of a node that has none fails.
WalkEffect ==
  /\ phase = "walk"
  /\ LET r == ReduceLoadFieldAt(m.effect, m.object, m.access)
     IN  /\ trace' = Append(trace, m.effect)
         /\ IF r.reduction # "-"
            THEN /\ gen' = [reduction |-> r.reduction, value |-> r.value]
                 /\ phase' = "done"
                 /\ m' = m
            ELSE IF EffectInputCount(m.effect) = 0
            THEN /\ phase' = "fatal"
                 /\ UNCHANGED <<gen, m>>
            ELSE /\ m' = [m EXCEPT !.effect = GetEffectInput(m.effect),
                                   !.object = r.object]
                 /\ UNCHANGED <<gen, phase>>
  /\ UNCHANGED <<instr, code, m0>>

\* Effect chains Start, MaxChain nodes of any kind, and the node that is
\* reduced: a LoadField of access f1 on a parameter or on a node of the
\* chain, or a node that is no LoadField.
InitLoadElimination ==
  /\ \E kinds \in [ChainIds -> NodeKinds], object \in ValueNodes,
        opcode \in {"LoadField", "StoreField"} :
       /\ opcode = "StoreField" =>
            object = 0 - 1 /\ \A k \in ChainIds : kinds[k].opcode = "Call"
       /\ code = [id \in 1..MaxChain + 2 |->
                    IF id = 1 THEN StartNode
                    ELSE IF id \in ChainIds THEN ChainNode(id, kinds[id])
                    ELSE Node(opcode, object, 0 - 3, "f1", <<id - 1>>,
                              opcode = "LoadField")]
  /\ instr = [node |-> MaxChain + 2]
  /\ m = [effect |-> 0, object |-> 0, access |-> "-"]
  /\ m0 = m
  /\ gen = [reduction |-> "-", value |-> 0]
  /\ trace = <<>>
  /\ phase = "reduce"

NextLoadElimination == Reduce \/ WalkEffect

SpecLoadElimination == InitLoadElimination /\ [][NextLoadElimination]_vars

SpecLoadEliminationFair ==
  SpecLoadElimination /\ WF_vars(NextLoadElimination)

\* The node that is reduced, its access, and the object the walk looks
\* for after the first k nodes it visited: a FinishRegion that is the
\* object is looked through to its value input.
ReducedNode == code[instr.node]
RECURSIVE ObjectAfter(_)
ObjectAfter(k) ==
  IF k = 0 THEN ReducedNode.value0
  ELSE LET o == ObjectAfter(k - 1)
           n == trace[k]
       IN  IF code[n].opcode = "FinishRegion" /\ o = n THEN code[n].value0
           ELSE o

\* The opcodes ReduceLoadField has a case for.
NamedOpcodes ==
  {"LoadField", "StoreField", "BeginRegion", "StoreBuffer", "StoreElement",
   "FinishRegion", "Allocate"}

\* A node that supplies the value: a LoadField of the object and access,
\* or a StoreField of them.
Supplies(n, object, access) ==
  /\ code[n].opcode \in {"LoadField", "StoreField"}
  /\ code[n].value0 = object /\ code[n].access = access
SuppliedValue(n) ==
  IF code[n].opcode = "LoadField" THEN n ELSE code[n].value1

\* A node the walk passes.
WalkedOver(n, object, access) ==
  \/ code[n].opcode \in {"LoadField", "StoreField"} /\ code[n].access # access
  \/ code[n].opcode \in {"BeginRegion", "StoreBuffer", "StoreElement",
                         "FinishRegion"}
  \/ code[n].opcode = "Allocate" /\ n # object
  \/ /\ code[n].nowrite /\ Len(code[n].effects) = 1
     /\ ~Supplies(n, object, access)

\* A node at which the walk gives up.
GivesUp(n, object, access) ==
  \/ /\ code[n].opcode = "StoreField" /\ code[n].access = access
     /\ code[n].value0 # object
  \/ code[n].opcode = "Allocate" /\ n = object
  \/ /\ code[n].opcode \notin NamedOpcodes
     /\ ~code[n].nowrite \/ Len(code[n].effects) # 1

\* The visited nodes are the effect chain of the reduced node, backwards.
WalksEffectChain ==
  \A k \in 1..Len(trace) :
    trace[k] = (IF k = 1 THEN GetEffectInput(instr.node)
                ELSE GetEffectInput(trace[k - 1]))

\* C29: a LoadField is replaced only by the value of the nearest node of
\* its effect chain that is a LoadField or a StoreField of the same object
\* and access, and only after nodes that are a LoadField or StoreField of
\* another access, a BeginRegion, StoreBuffer, StoreElement or FinishRegion
\* (looked through when it is the object), an Allocate other than the
\* object, or an operator that does not write and has one effect input; no
\* change is reported at a StoreField of the access on another object, at
\* the object's Allocate and at any other operator, and for a node that is
\* no LoadField.
C29_LoadElimination ==
  phase = "done" =>
    IF ReducedNode.opcode # "LoadField"
    THEN gen.reduction = "NoChange" /\ trace = <<>>
    ELSE LET last == Len(trace)
             access == ReducedNode.access
         IN  /\ last >= 1
             /\ WalksEffectChain
             /\ \A k \in 1..last - 1 :
                  /\ WalkedOver(trace[k], ObjectAfter(k - 1), access)
                  /\ ~Supplies(trace[k], ObjectAfter(k - 1), access)
                  /\ ~GivesUp(trace[k], ObjectAfter(k - 1), access)
             /\ gen.reduction \in {"Replace", "NoChange"}
             /\ gen.reduction = "Replace" <=>
                  Supplies(trace[last], ObjectAfter(last - 1), access)
             /\ gen.reduction = "Replace" =>
                  gen.value = SuppliedValue(trace[last])
             /\ gen.reduction = "NoChange" <=>
                  GivesUp(trace[last], ObjectAfter(last - 1), access)

\* A load from a finished region was replaced by the value stored into
\* the allocation of that region, past a store of another field.
C29_Witness ==
  /\ phase = "done" /\ ReducedNode.opcode = "LoadField"
  /\ gen.reduction = "Replace" /\ gen.value = 0 - 3
  /\ Len(trace) = 3
  /\ code[trace[1]].opcode = "FinishRegion" /\ ReducedNode.value0 = trace[1]
  /\ code[trace[2]].opcode = "StoreField" /\ code[trace[2]].access = "f2"
  /\ code[trace[3]].opcode = "StoreField"
  /\ code[trace[3]].value0 = code[trace[1]].value0

NoRepeats(seq) ==
  \A j, k \in 1..Len(seq) : j # k => seq[j] # seq[k]

====
